---------------------------- MODULE Spec2Model ----------------------------
(***************************************************************************)
(* Transcript synchronization core of the dialogue-generation backend:     *)
(* the JSON transcript files and their merge / bulk-save / filtered-read   *)
(* operations, the room ownership registry, and the TranscriptManager      *)
(* with its file watcher and WebSocket connections                         *)
(* (backend/api_server.py, backend/room_user_mapping.py).                  *)
(*                                                                         *)
(* Texts and meeting names are sequences of one-character strings, so that *)
(* str.strip(), the substring test and the file-name sanitising are        *)
(* computed, not assumed.                                                  *)
(***************************************************************************)
EXTENDS Integers, Sequences, FiniteSets, TLC

(***************************************************************************)
(* Bounds of the model.                                                    *)
(***************************************************************************)
\* longest text of an event or of a bulk entry
MaxTextLen == 2
\* longest entry sequence a transcript file may reach
MaxEntries == 3
\* longest list of a bulk update
MaxBulk == 2

(***************************************************************************)
(* Program constants.                                                      *)
(***************************************************************************)
\* transcripts[-20:], the look-back of a final event
FinalWindow == 20
\* transcripts[-10:], the look-back of an interim event
InterimWindow == 10

Chars == {" ", "a", "b"}
Speakers == {"Alice", "Bob"}
\* Python's None (or any falsy user id) where a user id is expected
NoUser == 0

Texts == UNION {[1..n -> Chars] : n \in 0..MaxTextLen}

(***************************************************************************)
(* Python string helpers.                                                  *)
(***************************************************************************)
RECURSIVE LStrip(_)
LStrip(t) ==
    IF t # <<>> /\ Head(t) = " " THEN LStrip(Tail(t)) ELSE t

RECURSIVE RStrip(_)
RStrip(t) ==
    IF t # <<>> /\ t[Len(t)] = " " THEN RStrip(SubSeq(t, 1, Len(t) - 1)) ELSE t

\* str.strip(): leading and trailing whitespace removed
Strip(t) == RStrip(LStrip(t))

\* Python's `a in b` on strings
IsSubstring(a, b) ==
    \E i \in 0..(Len(b) - Len(a)) : SubSeq(b, i + 1, i + Len(a)) = a

\* seq[-n:]
LastN(seq, n) ==
    IF Len(seq) <= n THEN seq ELSE SubSeq(seq, Len(seq) - n + 1, Len(seq))

Entry(speaker, text, is_final) ==
    [speaker |-> speaker, text |-> text, is_final |-> is_final]

ReplaceLast(seq, e) == [seq EXCEPT ![Len(seq)] = e]

(***************************************************************************)
(* get_transcript_file_path: the meeting name sanitised to a file stem.    *)
(***************************************************************************)
IsAlnum(c) == c \in {"a", "b", "m", "n"}

KeepChar(c) == IsAlnum(c) \/ c \in {"-", "_", " "}

SafeName(meeting_name) ==
    LET kept == SelectSeq(meeting_name, KeepChar)
        stripped == Strip(kept)
    IN  [i \in 1..Len(stripped) |->
            IF stripped[i] = " " THEN "_" ELSE stripped[i]]

(***************************************************************************)
(* Python dicts: functions whose domain is the set of keys present.        *)
(***************************************************************************)
DictSet(d, k, v) == [x \in (DOMAIN d) \cup {k} |-> IF x = k THEN v ELSE d[x]]

DictDel(d, k) == [x \in (DOMAIN d) \ {k} |-> d[x]]

DictGet(d, k, default) == IF k \in DOMAIN d THEN d[k] ELSE default

EmptyDict == [x \in {} |-> 0]

VARIABLES
    \* TRANSCRIPTS_DIR: file stem -> [transcripts, user_id] of the JSON file
    files,
    \* room_user_mapping: the Redis keys room_user:<room> -> user id
    redis_store,
    \* room_user_mapping._in_memory_mappings
    in_memory_mappings,
    \* whether the Redis server answers
    redis_up,
    \* room_user_mapping._redis_client is set
    redis_client,
    \* TranscriptManager.connections
    connections,
    \* TranscriptManager.connection_users: websocket -> user id
    connection_users,
    \* TranscriptManager.user_transcripts: user id -> entries
    user_transcripts,
    \* TranscriptFileWatcher.watched_files: meeting name -> set of websockets
    watched_files,
    \* TranscriptFileWatcher.last_known_state: meeting name -> entries
    last_known_state,
    \* coroutines scheduled on the event loop and not finished yet
    tasks,
    \* websocket_endpoint: each websocket's position and its local user_id
    ws,
    \* file stems with a modification event the observer has not handled yet
    fs_events,
    \* the most recent send_json attempted on a websocket, or watcher evicted
    last_send,
    \* the most recent call of a store operation, with the branch it took
    last_call,
    \* vector_db: the Redis hashes transcript:<meeting_id>, one for each
    \* pair of user id and meeting name
    vector_db,
    \* room name -> the user of the most recent store_room_user_mapping that
    \* no successful delete_room_mapping followed
    last_stored,
    \* the most recent call of stop_recording or update_transcript
    last_request,
    \* transcript_redis_service: the Redis keys active_transcript:<safe name>
    \* -> entries
    active_transcripts

storeVars == <<files, vector_db, active_transcripts>>
registryVars == <<redis_store, in_memory_mappings, redis_up, redis_client>>
hubVars == <<connections, connection_users, user_transcripts, watched_files,
             last_known_state, tasks, ws, fs_events, last_send>>
historyVars == <<last_call, last_stored, last_request>>
vars == <<storeVars, registryVars, hubVars, historyVars>>

(***************************************************************************)
(* room_user_mapping.py                                                    *)
(***************************************************************************)
\* get_redis_client: a client is returned when one was created before or
\* the first ping succeeds; the global is assigned before the ping.
GetRedisClient == redis_client \/ redis_up

\* get_user_id_for_room: Redis first, then the in-memory fallback; a Redis
\* error falls back to the in-memory dict as well.
GetUserIdForRoom(room_name) ==
    IF GetRedisClient /\ redis_up /\ room_name \in DOMAIN redis_store
        THEN redis_store[room_name]
        ELSE DictGet(in_memory_mappings, room_name, NoUser)

\* store_room_user_mapping(room_name, user_id)
StoreRoomUserMapping(room_name, user_id) ==
    /\ IF GetRedisClient /\ redis_up
          THEN /\ redis_store' = DictSet(redis_store, room_name, user_id)
               /\ UNCHANGED in_memory_mappings
          ELSE /\ in_memory_mappings' =
                      DictSet(in_memory_mappings, room_name, user_id)
               /\ UNCHANGED redis_store
    /\ redis_client' = TRUE
    /\ last_stored' = DictSet(last_stored, room_name, user_id)
    /\ UNCHANGED <<redis_up, storeVars, hubVars, last_call, last_request>>

\* delete_room_mapping(room_name): with a client the Redis key is deleted
\* first, and a Redis error ends the call before the in-memory entry is
\* removed (it returns False)
DeleteRoomMapping(room_name) ==
    LET failed == GetRedisClient /\ ~redis_up
    IN  /\ redis_client' = TRUE
        /\ IF failed
              THEN UNCHANGED <<redis_store, in_memory_mappings, last_stored>>
              ELSE /\ redis_store' = IF GetRedisClient
                                        THEN DictDel(redis_store, room_name)
                                        ELSE redis_store
                   /\ in_memory_mappings' =
                          DictDel(in_memory_mappings, room_name)
                   /\ last_stored' = DictDel(last_stored, room_name)
        /\ UNCHANGED <<redis_up, storeVars, hubVars, last_call, last_request>>

\* a call of get_user_id_for_room(room_name): it returns
\* GetUserIdForRoom(room_name) and leaves the client of get_redis_client
CallGetUserIdForRoom(room_name) ==
    /\ redis_client' = TRUE
    /\ UNCHANGED <<redis_store, in_memory_mappings, redis_up, storeVars,
                   hubVars, historyVars>>

\* the Redis server stops answering: ping and every command raise
RedisDown ==
    /\ redis_up
    /\ redis_up' = FALSE
    /\ UNCHANGED <<redis_store, in_memory_mappings, redis_client, storeVars,
                   hubVars, historyVars>>

\* the Redis server answers again, with the keys it held
RedisUp ==
    /\ ~redis_up
    /\ redis_up' = TRUE
    /\ UNCHANGED <<redis_store, in_memory_mappings, redis_client, storeVars,
                   hubVars, historyVars>>

(***************************************************************************)
(* The transcript files.                                                   *)
(***************************************************************************)
\* {"meeting_name": ..., "transcripts": [], "total_entries": 0}
NewData == [transcripts |-> <<>>, user_id |-> NoUser]

FileExists(meeting_name) == SafeName(meeting_name) \in DOMAIN files

FileData(meeting_name) == DictGet(files, SafeName(meeting_name), NewData)

\* a look-back over the whole sequence instead of its last n entries
InWhole(transcripts, n, speaker, text_stripped, is_final) ==
    \E i \in DOMAIN transcripts :
        /\ transcripts[i].speaker = speaker
        /\ Strip(transcripts[i].text) = text_stripped
        /\ transcripts[i].is_final = is_final

\* an entry of the last n with this speaker, stripped text and final flag
InRecent(transcripts, n, speaker, text_stripped, is_final) ==
    \E i \in DOMAIN LastN(transcripts, n) :
        LET entry == LastN(transcripts, n)[i]
        IN  /\ entry.speaker = speaker
            /\ Strip(entry.text) = text_stripped
            /\ entry.is_final = is_final

Result(write, transcripts, outcome) ==
    [write |-> write, transcripts |-> transcripts, outcome |-> outcome]

\* a final branch that appends whatever the last entry is
MergeFinalAppend(transcripts, speaker, text_stripped) ==
    Result(TRUE, Append(transcripts, Entry(speaker, text_stripped, TRUE)),
           "append")

\* the final branch of update_transcript_incremental
MergeFinal(transcripts, speaker, text_stripped) ==
    LET new == Entry(speaker, text_stripped, TRUE)
        last_entry == transcripts[Len(transcripts)]
        last_text == Strip(last_entry.text)
    IN  IF transcripts = <<>>
            THEN Result(TRUE, <<new>>, "first")
        ELSE IF last_entry.speaker = speaker /\ ~last_entry.is_final
            THEN IF last_text # text_stripped
                    THEN Result(TRUE, ReplaceLast(transcripts, new), "promote")
                    ELSE Result(TRUE, transcripts, "promote_same")
        ELSE IF last_entry.speaker = speaker /\ last_entry.is_final
            THEN IF last_text = text_stripped
                    THEN Result(FALSE, transcripts, "dup_last")
                 ELSE IF /\ IsSubstring(last_text, text_stripped)
                         /\ Len(text_stripped) > Len(last_text)
                    THEN Result(TRUE, ReplaceLast(transcripts, new), "extend")
                 ELSE IF InRecent(transcripts, FinalWindow, speaker,
                                  text_stripped, TRUE)
                    THEN Result(FALSE, transcripts, "dup_window")
                    ELSE Result(TRUE, Append(transcripts, new), "append")
        ELSE IF InRecent(transcripts, FinalWindow, speaker, text_stripped, TRUE)
            THEN Result(FALSE, transcripts, "dup_window")
            ELSE Result(TRUE, Append(transcripts, new), "append")

\* an interim branch that appends whatever the last entry is
MergeInterimAppend(transcripts, speaker, text_stripped) ==
    Result(TRUE, Append(transcripts, Entry(speaker, text_stripped, FALSE)),
           "append")

\* an interim branch that overwrites the last entry whatever it is
MergeInterimOverwrite(transcripts, speaker, text_stripped) ==
    IF transcripts = <<>>
        THEN Result(TRUE, <<Entry(speaker, text_stripped, FALSE)>>, "first")
        ELSE Result(TRUE,
                    ReplaceLast(transcripts,
                                Entry(speaker, text_stripped, FALSE)),
                    "replace")

\* the interim branch of update_transcript_incremental
MergeInterim(transcripts, speaker, text_stripped) ==
    LET new == Entry(speaker, text_stripped, FALSE)
        last_entry == transcripts[Len(transcripts)]
    IN  IF transcripts = <<>>
            THEN Result(TRUE, <<new>>, "first")
        ELSE IF last_entry.speaker = speaker /\ ~last_entry.is_final
            THEN Result(TRUE, ReplaceLast(transcripts, new), "replace")
        ELSE IF InRecent(transcripts, InterimWindow, speaker,
                         text_stripped, FALSE)
            THEN Result(TRUE, transcripts, "dup_interim")
            ELSE Result(TRUE, Append(transcripts, new), "append")

\* a merge that does not return early on a text that is empty once trimmed
MergeBlank(transcripts, speaker, text, is_final) ==
    IF is_final
        THEN MergeFinalAppend(transcripts, speaker, Strip(text))
        ELSE MergeInterimAppend(transcripts, speaker, Strip(text))

\* update_transcript_incremental up to the point where the file is written
MergeEntries(transcripts, speaker, text, is_final) ==
    LET text_stripped == Strip(text)
    IN  IF text_stripped = <<>>
            THEN Result(FALSE, transcripts, "skip_empty")
        ELSE IF is_final
            THEN MergeFinal(transcripts, speaker, text_stripped)
            ELSE MergeInterim(transcripts, speaker, text_stripped)

\* a save that appends to the entries the file holds
SavedAppended(meeting_name, transcripts) ==
    [transcripts |->
         FileData(meeting_name).transcripts
         \o [i \in 1..Len(transcripts) |->
                Entry(transcripts[i][1], transcripts[i][2], TRUE)],
     user_id |-> GetUserIdForRoom(meeting_name)]

\* save_transcript_to_file(meeting_name, transcripts), delete_after_storage
\* False: the file is rewritten from the (speaker, text) list, every entry
\* final, with the room's owner when the registry knows one.
SavedData(meeting_name, transcripts) ==
    [transcripts |-> [i \in 1..Len(transcripts) |->
                         Entry(transcripts[i][1], transcripts[i][2], TRUE)],
     user_id |-> GetUserIdForRoom(meeting_name)]

\* the deduplication key of load_transcript_from_file
DedupKey(entry) == <<entry.speaker, Strip(entry.text)>>

\* load_transcript_from_file, the filter_interim pass over data["transcripts"]
RECURSIVE Deduplicate(_, _)
Deduplicate(final_transcripts, seen) ==
    IF final_transcripts = <<>> THEN <<>>
    ELSE LET entry == Head(final_transcripts)
             key == DedupKey(entry)
         IN  IF key \notin seen /\ Strip(entry.text) # <<>>
                THEN <<entry>> \o Deduplicate(Tail(final_transcripts),
                                             seen \cup {key})
                ELSE Deduplicate(Tail(final_transcripts), seen)

\* a filter that lets every entry through
AnyEntry(entry) == TRUE

\* t.get("is_final", False)
IsFinalEntry(entry) == entry.is_final

FilterInterim(transcripts) ==
    Deduplicate(SelectSeq(transcripts, IsFinalEntry), {})

\* load_transcript_from_file(meeting_name, filter_interim) of an existing file
LoadTranscripts(meeting_name, filter_interim) ==
    IF filter_interim
        THEN FilterInterim(FileData(meeting_name).transcripts)
        ELSE FileData(meeting_name).transcripts

(***************************************************************************)
(* The most recent call of a store operation and the branch it took.       *)
(***************************************************************************)
NoCall ==
    [op |-> "none", meeting_name |-> <<>>, is_final |-> FALSE,
     outcome |-> "", repeated |-> FALSE, entries |-> <<>>,
     replaced |-> FALSE, after_bulk |-> FALSE, result |-> <<>>]

MergeCall(meeting_name, is_final, outcome) ==
    [NoCall EXCEPT !.op = "merge", !.meeting_name = meeting_name,
                   !.is_final = is_final, !.outcome = outcome]

BulkCall(meeting_name, transcripts, outcome) ==
    [NoCall EXCEPT !.op = "bulk", !.meeting_name = meeting_name,
                   !.entries = transcripts, !.outcome = outcome,
                   !.replaced = FileData(meeting_name).transcripts # <<>>]

\* no stop_recording or update_transcript request was handled yet
NoRequest ==
    [op |-> "none", meeting_name |-> <<>>, user_id |-> NoUser,
     status |-> "", room_user_id |-> NoUser, stored |-> "none",
     has_text |-> FALSE, existed |-> FALSE, exists |-> FALSE,
     kept |-> FALSE, tier |-> "none", entries |-> <<>>]

(***************************************************************************)
(* Coroutines on the event loop.                                           *)
(***************************************************************************)
\* longest queue of unfinished coroutines
MaxTasks == 1

\* transcript_manager.broadcast_transcript(speaker, text, is_final,
\*                                         meeting_name, user_id), not started
BroadcastTask(speaker, text, is_final, meeting_name, user_id) ==
    [kind |-> "broadcast", pc |-> "start", speaker |-> speaker,
     text |-> text, is_final |-> is_final, meeting_name |-> meeting_name,
     user_id |-> user_id, is_update |-> FALSE, entries |-> <<>>,
     todo |-> {}, disconnected |-> {}]

RemoveTask(i) == [j \in 1..(Len(tasks) - 1) |->
                     IF j < i THEN tasks[j] ELSE tasks[j + 1]]

\* the user the token of each websocket resolves to
UserOf(c) == c

NoSend ==
    [conn |-> 0, type |-> "none", via |-> "none", meeting_name |-> <<>>,
     user_id |-> NoUser, attempted |-> FALSE, ok |-> FALSE, raised |-> FALSE,
     conn_owner |-> NoUser, registered |-> FALSE]

\* websocket.send_json(message) on connection conn by the coroutine via, on
\* behalf of owner user_id: it raises once the peer is gone
Send(conn, type, via, meeting_name, user_id, alive) ==
    [conn |-> conn, type |-> type, via |-> via, meeting_name |-> meeting_name,
     user_id |-> user_id, attempted |-> TRUE, ok |-> alive, raised |-> ~alive,
     conn_owner |-> IF conn \in DOMAIN ws THEN ws[conn].user_id ELSE user_id,
     registered |-> conn \in DOMAIN connection_users]

\* the peer of a websocket still reads what is sent to it
Alive(conn) == conn \in DOMAIN ws /\ ws[conn].state = "active"

(***************************************************************************)
(* TranscriptFileWatcher: the watch table and the last known states.       *)
(***************************************************************************)
\* remove_watcher(meeting_name, websocket): the pair
\* <<watched_files, last_known_state>> afterwards
RemoveWatcher(watched, known, meeting_name, websocket) ==
    IF meeting_name \notin DOMAIN watched THEN <<watched, known>>
    ELSE IF watched[meeting_name] \ {websocket} = {}
        THEN <<DictDel(watched, meeting_name), DictDel(known, meeting_name)>>
        ELSE <<[watched EXCEPT ![meeting_name] = @ \ {websocket}], known>>

\* a disconnect that leaves the watch table as it is
KeepWatchers(watched, known, websocket) == <<watched, known>>

\* remove_all_watchers_for_websocket(websocket)
RemoveAllWatchersForWebsocket(watched, known, websocket) ==
    LET emptied == {m \in DOMAIN watched : watched[m] \ {websocket} = {}}
    IN  <<[m \in (DOMAIN watched) \ emptied |-> watched[m] \ {websocket}],
          [m \in (DOMAIN known) \ emptied |-> known[m]]>>

\* remove_watcher for each websocket of a set, one after the other
RECURSIVE RemoveWatchers(_, _, _, _)
RemoveWatchers(watched, known, meeting_name, websockets) ==
    IF websockets = {} THEN <<watched, known>>
    ELSE LET w == CHOOSE x \in websockets : TRUE
             r == RemoveWatcher(watched, known, meeting_name, w)
         IN  RemoveWatchers(r[1], r[2], meeting_name, websockets \ {w})

\* TranscriptManager.disconnect for each websocket of a set: the connection
\* index and the watch table afterwards
RECURSIVE RemoveAllWatchers(_, _, _)
RemoveAllWatchers(watched, known, websockets) ==
    IF websockets = {} THEN <<watched, known>>
    ELSE LET w == CHOOSE x \in websockets : TRUE
             r == RemoveAllWatchersForWebsocket(watched, known, w)
         IN  RemoveAllWatchers(r[1], r[2], websockets \ {w})

\* TranscriptManager.disconnect(websocket) for every websocket of gone, after
\* remove_watcher(meeting_name, websocket) for every websocket of unwatch
DisconnectAll(meeting_name, unwatch, gone) ==
    LET r1 == RemoveWatchers(watched_files, last_known_state, meeting_name,
                             unwatch)
        r2 == RemoveAllWatchers(r1[1], r1[2], gone)
    IN  /\ connections' = connections \ gone
        /\ connection_users' =
               [c \in (DOMAIN connection_users) \ gone |-> connection_users[c]]
        /\ watched_files' = r2[1]
        /\ last_known_state' = r2[2]

\* the endpoint positions once disconnect(websocket) ran for the set gone:
\* an endpoint still in its receive loop stays there
Dropped(gone) ==
    [c \in DOMAIN ws |->
        IF c \notin gone THEN ws[c]
        ELSE IF ws[c].state \in {"active", "gone"}
            THEN [ws[c] EXCEPT !.state = "dropped"]
        ELSE IF ws[c].state = "orphan"
            THEN [ws[c] EXCEPT !.state = "closed"]
            ELSE ws[c]]

\* every connection, whoever owns it
AllConnections(user_id) == DOMAIN connection_users

\* TranscriptManager.get_connections_for_user(user_id)
GetConnectionsForUser(user_id) ==
    {c \in DOMAIN connection_users : connection_users[c] = user_id}

\* the user a websocket authenticated as, remembered after its disconnect
RememberedUserId(websocket) == ws[websocket].user_id

\* TranscriptManager.get_user_id_for_connection(websocket)
GetUserIdForConnection(websocket) ==
    DictGet(connection_users, websocket, NoUser)

\* the lock of the TranscriptManager is held by send_complete_transcript
\* until its last send
LockHeld == \E i \in DOMAIN tasks : tasks[i].kind = "complete"

(***************************************************************************)
(* update_transcript_incremental(meeting_name, speaker, text, is_final,    *)
(* broadcast), called in the server process.                               *)
(***************************************************************************)
UpdateTranscriptIncremental(meeting_name, speaker, text, is_final, broadcast) ==
    LET data == FileData(meeting_name)
        r == MergeEntries(data.transcripts, speaker, text, is_final)
        user_id == GetUserIdForRoom(meeting_name)
    IN  /\ Len(r.transcripts) <= MaxEntries
        /\ last_call' = MergeCall(meeting_name, is_final, r.outcome)
        /\ IF r.write
              THEN /\ files' = DictSet(files, SafeName(meeting_name),
                          [transcripts |-> r.transcripts,
                           user_id |-> IF user_id # NoUser
                                          /\ data.user_id = NoUser
                                          THEN user_id ELSE data.user_id])
                   /\ fs_events' = fs_events \cup {SafeName(meeting_name)}
                   /\ redis_client' = TRUE
                   /\ IF broadcast /\ user_id # NoUser
                         THEN /\ Len(tasks) < MaxTasks
                              /\ tasks' = Append(tasks,
                                     BroadcastTask(speaker, Strip(text),
                                         is_final, meeting_name, user_id))
                         ELSE UNCHANGED tasks
              ELSE UNCHANGED <<files, fs_events, redis_client, tasks>>
        /\ UNCHANGED <<redis_store, in_memory_mappings, redis_up,
                       connections, connection_users, user_transcripts,
                       watched_files, last_known_state, ws, last_send,
                       vector_db, active_transcripts,
                       last_stored, last_request>>

(***************************************************************************)
(* transcript_redis_service.update_transcript_incremental_redis: the same  *)
(* events merged into the Redis key active_transcript:<safe name>.         *)
(***************************************************************************)
\* transcripts[-3:], the look-back of a final event in the Redis variant
RedisWindow == 3

\* the final branch of update_transcript_incremental_redis
MergeFinalRedis(transcripts, speaker, text_stripped) ==
    LET new == Entry(speaker, text_stripped, TRUE)
        last_entry == transcripts[Len(transcripts)]
        last_text == Strip(last_entry.text)
    IN  IF transcripts = <<>>
            THEN Result(TRUE, <<new>>, "first")
        ELSE IF last_entry.speaker = speaker /\ ~last_entry.is_final
            THEN IF last_text # text_stripped
                    THEN Result(TRUE, ReplaceLast(transcripts, new), "promote")
                    ELSE Result(TRUE, transcripts, "promote_same")
        ELSE IF last_entry.speaker = speaker /\ last_entry.is_final
            THEN IF last_text = text_stripped
                    THEN Result(FALSE, transcripts, "dup_last")
                 ELSE IF /\ IsSubstring(last_text, text_stripped)
                         /\ Len(text_stripped) > Len(last_text)
                    THEN Result(TRUE, ReplaceLast(transcripts, new), "extend")
                 ELSE IF InRecent(transcripts, RedisWindow, speaker,
                                  text_stripped, TRUE)
                    THEN Result(FALSE, transcripts, "dup_window")
                    ELSE Result(TRUE, Append(transcripts, new), "append")
        ELSE IF InRecent(transcripts, RedisWindow, speaker, text_stripped, TRUE)
            THEN Result(FALSE, transcripts, "dup_window")
            ELSE Result(TRUE, Append(transcripts, new), "append")

\* the interim branch of update_transcript_incremental_redis
MergeInterimRedis(transcripts, speaker, text_stripped) ==
    LET new == Entry(speaker, text_stripped, FALSE)
        last_entry == transcripts[Len(transcripts)]
    IN  IF transcripts = <<>>
            THEN Result(TRUE, <<new>>, "first")
        ELSE IF last_entry.speaker = speaker /\ ~last_entry.is_final
            THEN Result(TRUE, ReplaceLast(transcripts, new), "replace")
            ELSE Result(TRUE, Append(transcripts, new), "append")

\* update_transcript_incremental_redis up to the point where the key is set
MergeEntriesRedis(transcripts, speaker, text, is_final) ==
    LET text_stripped == Strip(text)
    IN  IF is_final
            THEN IF text_stripped = <<>>
                    THEN Result(FALSE, transcripts, "skip_empty")
                    ELSE MergeFinalRedis(transcripts, speaker, text_stripped)
            ELSE MergeInterimRedis(transcripts, speaker, text_stripped)

\* the entries the key of a meeting holds
ActiveData(meeting_name) ==
    DictGet(active_transcripts, SafeName(meeting_name), <<>>)

\* without a Redis client the call returns False and changes nothing
UpdateTranscriptIncrementalRedis(meeting_name, speaker, text, is_final) ==
    LET r == MergeEntriesRedis(ActiveData(meeting_name), speaker, text,
                               is_final)
    IN  /\ Len(r.transcripts) <= MaxEntries
        /\ active_transcripts' =
               IF redis_up /\ r.write
                   THEN DictSet(active_transcripts, SafeName(meeting_name),
                                r.transcripts)
                   ELSE active_transcripts
        /\ last_call' = MergeCall(meeting_name, is_final,
                                  IF redis_up THEN r.outcome ELSE "no_client")
        /\ UNCHANGED <<files, vector_db, registryVars, hubVars, last_stored,
                       last_request>>

(***************************************************************************)
(* update_transcript_incremental called in another process or thread than  *)
(* the other writers of the file: the file is read under flock, the lock   *)
(* is released, the event is merged into what was read, and the result is  *)
(* written under a second flock.                                           *)
(***************************************************************************)
\* the call read the file and holds what it read
MergeTask(meeting_name, speaker, text, is_final) ==
    [BroadcastTask(speaker, text, is_final, meeting_name,
                   FileData(meeting_name).user_id)
        EXCEPT !.kind = "merge", !.pc = "write",
               !.entries = FileData(meeting_name).transcripts]

ProducerRead(meeting_name, speaker, text, is_final) ==
    /\ Len(tasks) < MaxTasks
    /\ tasks' = Append(tasks, MergeTask(meeting_name, speaker, text, is_final))
    /\ UNCHANGED <<storeVars, registryVars, connections, connection_users,
                   user_transcripts, watched_files, last_known_state, ws,
                   fs_events, last_send, historyVars>>

\* the call at place i merges its event into what it read and writes the file
ProducerWrite(i) ==
    LET t == tasks[i]
        r == MergeEntries(t.entries, t.speaker, t.text, t.is_final)
        user_id == GetUserIdForRoom(t.meeting_name)
    IN  /\ t.kind = "merge" /\ t.pc = "write"
        /\ Len(r.transcripts) <= MaxEntries
        /\ tasks' = RemoveTask(i)
        /\ last_call' = MergeCall(t.meeting_name, t.is_final, r.outcome)
        /\ IF r.write
              THEN /\ files' = DictSet(files, SafeName(t.meeting_name),
                          [transcripts |-> r.transcripts,
                           user_id |-> IF user_id # NoUser
                                          /\ t.user_id = NoUser
                                          THEN user_id ELSE t.user_id])
                   /\ fs_events' = fs_events \cup {SafeName(t.meeting_name)}
                   /\ redis_client' = TRUE
              ELSE UNCHANGED <<files, fs_events, redis_client>>
        /\ UNCHANGED <<redis_store, in_memory_mappings, redis_up,
                       connections, connection_users, user_transcripts,
                       watched_files, last_known_state, ws, last_send,
                       vector_db, active_transcripts,
                       last_stored, last_request>>

(***************************************************************************)
(* TranscriptManager.send_complete_transcript(meeting_title,               *)
(* transcript_list): the list is saved to the file and sent to the         *)
(* connections of the room's owner.  The lock is held until the last send. *)
(***************************************************************************)
CompleteTask(meeting_title, transcript_list, user_id) ==
    [BroadcastTask("", <<>>, TRUE, meeting_title, user_id)
        EXCEPT !.kind = "complete", !.pc = "send",
               !.entries = SavedData(meeting_title, transcript_list).transcripts,
               !.todo = GetConnectionsForUser(user_id)]

SendCompleteTranscript(meeting_title, transcript_list) ==
    LET user_id == GetUserIdForRoom(meeting_title)
        saved == user_id # NoUser /\ transcript_list # <<>>
    IN  /\ ~LockHeld
        /\ redis_client' = TRUE
        /\ last_call' = BulkCall(meeting_title, transcript_list,
                            IF user_id = NoUser THEN "no_owner"
                            ELSE IF saved THEN "saved" ELSE "empty")
        /\ IF saved
              THEN /\ files' = DictSet(files, SafeName(meeting_title),
                          SavedData(meeting_title, transcript_list))
                   /\ fs_events' = fs_events \cup {SafeName(meeting_title)}
              ELSE UNCHANGED <<files, fs_events>>
        /\ IF user_id # NoUser /\ GetConnectionsForUser(user_id) # {}
              THEN /\ Len(tasks) < MaxTasks
                   /\ tasks' = Append(tasks,
                          CompleteTask(meeting_title, transcript_list, user_id))
              ELSE UNCHANGED tasks
        /\ UNCHANGED <<redis_store, in_memory_mappings, redis_up,
                       connections, connection_users, user_transcripts,
                       watched_files, last_known_state, ws, last_send,
                       vector_db, active_transcripts,
                       last_stored, last_request>>

(***************************************************************************)
(* POST /transcripts/update: the list the recording process submits        *)
(* replaces the buffer of the room's owner and is saved to the file.       *)
(***************************************************************************)
UpdateTranscriptsFromMain(room_name, transcripts) ==
    LET user_id == GetUserIdForRoom(room_name)
        saved == user_id # NoUser /\ transcripts # <<>>
    IN  /\ ~LockHeld
        /\ redis_client' = TRUE
        /\ last_call' = BulkCall(room_name, transcripts,
                            IF user_id = NoUser THEN "no_owner"
                            ELSE IF saved THEN "saved" ELSE "empty")
        /\ user_transcripts' =
               IF user_id = NoUser THEN user_transcripts
               ELSE DictSet(user_transcripts, user_id,
                        SavedData(room_name, transcripts).transcripts)
        /\ IF saved
              THEN /\ files' = DictSet(files, SafeName(room_name),
                          SavedData(room_name, transcripts))
                   /\ fs_events' = fs_events \cup {SafeName(room_name)}
              ELSE UNCHANGED <<files, fs_events>>
        /\ UNCHANGED <<redis_store, in_memory_mappings, redis_up,
                       connections, connection_users, watched_files,
                       last_known_state, tasks, ws, last_send, vector_db,
                       active_transcripts,
                       last_stored, last_request>>

(***************************************************************************)
(* load_transcript_from_file(meeting_name, filter_interim), as the         *)
(* GET /transcripts fallback and the WebSocket handlers call it.           *)
(***************************************************************************)
\* a read that writes what it filtered back to the file
LoadAndRewrite(meeting_name, filter_interim) ==
    /\ last_call' = [NoCall EXCEPT !.op = "read",
                        !.meeting_name = meeting_name,
                        !.result = LoadTranscripts(meeting_name,
                                                   filter_interim)]
    /\ files' = IF FileExists(meeting_name)
                   THEN DictSet(files, SafeName(meeting_name),
                            [FileData(meeting_name) EXCEPT !.transcripts =
                                LoadTranscripts(meeting_name, filter_interim)])
                   ELSE files
    /\ UNCHANGED <<registryVars, hubVars, vector_db, active_transcripts,
                   last_stored,
                   last_request>>

LoadTranscriptFromFile(meeting_name, filter_interim) ==
    /\ last_call' = [NoCall EXCEPT !.op = "read",
                        !.meeting_name = meeting_name,
                        !.is_final = filter_interim,
                        !.repeated = /\ last_call.op = "read"
                                     /\ last_call.meeting_name = meeting_name
                                     /\ last_call.is_final = filter_interim,
                        !.outcome = IF FileExists(meeting_name)
                                       THEN "loaded" ELSE "not_found",
                        !.after_bulk = /\ last_call.op = "bulk"
                                       /\ last_call.outcome = "saved"
                                       /\ last_call.meeting_name = meeting_name,
                        !.entries = IF last_call.op = "bulk"
                                       THEN last_call.entries ELSE <<>>,
                        !.replaced = last_call.op = "bulk"
                                     /\ last_call.replaced,
                        !.result = LoadTranscripts(meeting_name,
                                                   filter_interim)]
    /\ UNCHANGED <<storeVars, registryVars, hubVars, last_stored,
                   last_request>>

(***************************************************************************)
(* The vector database and the two HTTP handlers that write to it.         *)
(***************************************************************************)
\* what a call of store_transcript may leave behind: nothing (no client, no
\* embedding), the metadata without the embedding (the second hset failed),
\* or the whole document; only the last returns a meeting id
StoreOutcomes == {"none", "partial", "full"}

\* the (speaker, text) pairs with a text that is not empty once trimmed
RECURSIVE NonEmptyEntries(_)
NonEmptyEntries(pairs) ==
    IF pairs = <<>> THEN <<>>
    ELSE IF Strip(Head(pairs)[2]) # <<>>
        THEN <<Head(pairs)>> \o NonEmptyEntries(Tail(pairs))
        ELSE NonEmptyEntries(Tail(pairs))

\* the (speaker, text) pairs of the entries of a file
EntryPairs(transcripts) ==
    [i \in 1..Len(transcripts) |->
        <<transcripts[i].speaker, transcripts[i].text>>]

\* transcript_text: one line "speaker: text.strip()" for each pair
TranscriptText(pairs) ==
    [i \in 1..Len(pairs) |-> <<pairs[i][1], Strip(pairs[i][2])>>]

\* store_transcript(user_id, meeting_name, transcript_text, ...) with the
\* meeting id of the document of this user and meeting name, if there is one
StoreTranscript(user_id, meeting_name, transcript_text, stored) ==
    LET key == <<user_id, meeting_name>>
    IN  IF stored = "none" THEN vector_db
        ELSE DictSet(vector_db, key,
                 [user_id |-> user_id, meeting_name |-> meeting_name,
                  transcript_text |-> transcript_text,
                  embedding |-> \/ stored = "full"
                                \/ /\ key \in DOMAIN vector_db
                                   /\ vector_db[key].embedding])

\* what the archival part of a handler leaves in the vector database: with
\* Redis unreachable get_redis_client or client.keys raises before anything
\* is stored
Archived(room_user_id, stored) == IF redis_up THEN stored ELSE "none"

\* POST /transcripts/stop-recording by user_id
StopRecording(meeting_name, user_id, stored) ==
    LET room_user_id == GetUserIdForRoom(meeting_name)
        denied == room_user_id # NoUser /\ room_user_id # user_id
        data == FileData(meeting_name)
        transcript_entries == NonEmptyEntries(EntryPairs(data.transcripts))
        storage_user_id == IF room_user_id # NoUser THEN room_user_id
                           ELSE user_id
        archived == IF denied \/ ~FileExists(meeting_name)
                       \/ transcript_entries = <<>>
                       THEN "none" ELSE Archived(room_user_id, stored)
        unlink == /\ ~denied
                  /\ FileExists(meeting_name)
                  /\ transcript_entries = <<>> \/ archived = "full"
        status == IF denied THEN "forbidden"
                  ELSE IF unlink THEN "ok" ELSE "error"
    IN  /\ stored \in StoreOutcomes
        /\ redis_client' = TRUE
        /\ vector_db' = StoreTranscript(storage_user_id, meeting_name,
                             TranscriptText(transcript_entries), archived)
        /\ files' = IF unlink THEN DictDel(files, SafeName(meeting_name))
                    ELSE files
        /\ last_request' =
               [op |-> "stop", meeting_name |-> meeting_name,
                user_id |-> user_id, status |-> status,
                room_user_id |-> room_user_id, stored |-> archived,
                has_text |-> transcript_entries # <<>>,
                existed |-> FileExists(meeting_name),
                exists |-> FileExists(meeting_name) /\ ~unlink,
                kept |-> FileExists(meeting_name) /\ ~unlink,
                tier |-> "none", entries |-> <<>>]
        /\ UNCHANGED <<redis_store, in_memory_mappings, redis_up, hubVars,
                       last_call, last_stored, active_transcripts>>

\* PUT /transcripts/{meeting_name} by user_id with the (speaker, text) pairs
\* of the request
UpdateTranscript(meeting_name, user_id, transcripts, stored) ==
    LET room_user_id == GetUserIdForRoom(meeting_name)
        denied == room_user_id # NoUser /\ room_user_id # user_id
        transcript_entries == NonEmptyEntries(transcripts)
        rejected == denied \/ transcript_entries = <<>>
        archived == IF rejected THEN "none"
                    ELSE Archived(room_user_id, stored)
        updated_in_file == ~rejected /\ FileExists(meeting_name)
        new_data == [transcripts |->
                         [i \in 1..Len(transcript_entries) |->
                             Entry(transcript_entries[i][1],
                                   transcript_entries[i][2], TRUE)],
                     user_id |-> user_id]
        status == IF denied THEN "forbidden"
                  ELSE IF transcript_entries = <<>> THEN "bad_request"
                  ELSE IF archived = "full" \/ updated_in_file THEN "ok"
                  ELSE "error"
    IN  /\ stored \in StoreOutcomes
        /\ redis_client' = TRUE
        /\ vector_db' = StoreTranscript(user_id, meeting_name,
                             TranscriptText(transcript_entries), archived)
        /\ IF updated_in_file
              THEN /\ files' = DictSet(files, SafeName(meeting_name), new_data)
                   /\ fs_events' = fs_events \cup {SafeName(meeting_name)}
              ELSE UNCHANGED <<files, fs_events>>
        /\ last_request' =
               [op |-> "edit", meeting_name |-> meeting_name,
                user_id |-> user_id, status |-> status,
                room_user_id |-> room_user_id, stored |-> archived,
                has_text |-> transcript_entries # <<>>,
                existed |-> FileExists(meeting_name),
                exists |-> FileExists(meeting_name),
                kept |-> /\ FileExists(meeting_name)
                         /\ updated_in_file =>
                                new_data = FileData(meeting_name),
                tier |-> "none", entries |-> <<>>]
        /\ UNCHANGED <<redis_store, in_memory_mappings, redis_up,
                       connections, connection_users, user_transcripts,
                       watched_files, last_known_state, tasks, ws, last_send,
                       last_call, last_stored, active_transcripts>>

(***************************************************************************)
(* websocket_endpoint and TranscriptManager.connect / disconnect.          *)
(***************************************************************************)
\* number of websockets that ever connect
MaxConns == 2

Conns == 1..MaxConns

\* close codes of websocket.close(code=..., reason=...); NotClosed while the
\* server never closed the socket
NotClosed == 0

NormalClosure == 1000

PolicyViolation == 1008

\* what a client presents in the query string: no token, a token that
\* verify_token rejects or one it accepts; the user id the "sub" of the
\* payload names (NoUser without a "sub"); whether the user table can be read
TokenKinds == {"none", "bad", "good"}

\* a user id no row of the user table has
UnknownUser == MaxConns + 1

Credentials ==
    [token : TokenKinds, sub : {NoUser} \cup Conns \cup {UnknownUser},
     db : BOOLEAN]

\* a handshake that trusts the "sub" of any token that carries one
AuthenticateUnverified(credential) ==
    IF credential.token = "none"
        THEN [user_id |-> NoUser, close_code |-> PolicyViolation,
              reason |-> "Authentication required"]
    ELSE IF credential.sub = NoUser
        THEN [user_id |-> NoUser, close_code |-> PolicyViolation,
              reason |-> "Invalid token payload"]
    ELSE [user_id |-> credential.sub, close_code |-> NotClosed,
          reason |-> ""]

\* the steps of websocket_endpoint before transcript_manager.connect: the
\* user the credential resolves to, or the close code and reason of the
\* step that failed
Authenticate(credential) ==
    IF credential.token = "none"
        THEN [user_id |-> NoUser, close_code |-> PolicyViolation,
              reason |-> "Authentication required"]
    ELSE IF credential.token = "bad"
        THEN [user_id |-> NoUser, close_code |-> PolicyViolation,
              reason |-> "Invalid token"]
    ELSE IF credential.sub = NoUser
        THEN [user_id |-> NoUser, close_code |-> PolicyViolation,
              reason |-> "Invalid token payload"]
    ELSE IF ~credential.db
        THEN [user_id |-> NoUser, close_code |-> PolicyViolation,
              reason |-> "Database error"]
    ELSE IF credential.sub \notin Conns
        THEN [user_id |-> NoUser, close_code |-> PolicyViolation,
              reason |-> "User not found"]
    ELSE [user_id |-> credential.sub, close_code |-> NotClosed,
          reason |-> ""]

\* the handshake succeeded for user_id and transcript_manager.connect runs:
\* the websocket is registered, then the buffered entries of the user are
\* sent as initial_transcripts.  When that send raises the endpoint returns
\* without calling disconnect.
WebsocketConnect(c, user_id, alive) ==
    LET buffered == DictGet(user_transcripts, user_id, <<>>)
    IN  /\ c \notin DOMAIN ws
        /\ buffered = <<>> => alive
        /\ connections' = connections \cup {c}
        /\ connection_users' = DictSet(connection_users, c, user_id)
        /\ user_transcripts' = DictSet(user_transcripts, user_id, buffered)
        /\ ws' = DictSet(ws, c,
               [state |-> IF alive THEN "active" ELSE "orphan",
                user_id |-> user_id,
                close_code |-> IF alive THEN NotClosed ELSE NormalClosure,
                reason |-> IF alive THEN "" ELSE "Server error"])
        /\ last_send' = IF buffered = <<>> THEN last_send
                        ELSE Send(c, "initial_transcripts", "connect", <<>>,
                                  user_id, alive)
        /\ UNCHANGED <<storeVars, registryVars, watched_files,
                       last_known_state, tasks, fs_events, historyVars>>

\* websocket_endpoint up to its receive loop for a client that presents
\* credential: a failed step closes the socket and returns; websocket.accept
\* may raise, and then connect registers nothing
WebsocketOpen(c, credential, accepted, alive) ==
    LET r == Authenticate(credential)
    IN  IF r.close_code = NotClosed /\ accepted
            THEN WebsocketConnect(c, r.user_id, alive)
            ELSE /\ c \notin DOMAIN ws
                 /\ ws' = DictSet(ws, c,
                        IF r.close_code # NotClosed
                            THEN [state |-> "rejected", user_id |-> NoUser,
                                  close_code |-> r.close_code,
                                  reason |-> r.reason]
                            ELSE [state |-> "rejected", user_id |-> r.user_id,
                                  close_code |-> NormalClosure,
                                  reason |-> "Server error"])
                 /\ UNCHANGED <<storeVars, registryVars, connections,
                                connection_users, user_transcripts,
                                watched_files, last_known_state, tasks,
                                fs_events, last_send, historyVars>>

\* the peer closes the socket; the endpoint has not noticed yet
PeerGone(c) ==
    /\ Alive(c)
    /\ ws' = [ws EXCEPT ![c].state = "gone"]
    /\ UNCHANGED <<storeVars, registryVars, connections, connection_users,
                   user_transcripts, watched_files, last_known_state, tasks,
                   fs_events, last_send, historyVars>>

\* receive_text raises WebSocketDisconnect; finally: disconnect(websocket)
EndpointDisconnect(c) ==
    /\ c \in DOMAIN ws
    /\ ws[c].state \in {"gone", "dropped"}
    /\ DisconnectAll(<<>>, {}, {c})
    /\ ws' = [ws EXCEPT ![c].state = "closed"]
    /\ UNCHANGED <<storeVars, registryVars, user_transcripts, tasks,
                   fs_events, last_send, historyVars>>

\* add_watcher(meeting_name, websocket): the pair
\* <<watched_files, last_known_state>> afterwards
AddWatcher(meeting_name, websocket) ==
    <<DictSet(watched_files, meeting_name,
          DictGet(watched_files, meeting_name, {}) \cup {websocket}),
      IF FileExists(meeting_name)
          THEN DictSet(last_known_state, meeting_name, FileData(meeting_name))
          ELSE last_known_state>>

\* the endpoint receives {"type": "watch_transcript", "meeting_name": ...};
\* a message the peer sent before it went away is still handled
WatchTranscript(c, meeting_name) ==
    LET user_id == ws[c].user_id
        file_user_id == GetUserIdForRoom(meeting_name)
        denied == file_user_id # NoUser /\ file_user_id # user_id
        added == AddWatcher(meeting_name, c)
        loaded == FileExists(meeting_name)
        denied_by_file == /\ loaded
                          /\ FileData(meeting_name).user_id # NoUser
                          /\ FileData(meeting_name).user_id # user_id
        error_raised == (denied \/ denied_by_file) /\ ~Alive(c)
        r == IF denied THEN <<watched_files, last_known_state>> ELSE added
    IN  /\ c \in DOMAIN ws
        /\ ws[c].state \in {"active", "gone", "dropped"}
        /\ redis_client' = TRUE
        /\ last_send' =
               IF denied \/ denied_by_file
                   THEN Send(c, "error", "watch", meeting_name, file_user_id,
                             Alive(c))
               ELSE IF loaded
                   THEN Send(c, "complete_transcript", "watch", meeting_name,
                             user_id, Alive(c))
                   ELSE last_send
        /\ IF error_raised
              THEN LET gone == RemoveAllWatchersForWebsocket(r[1], r[2], c)
                   IN  /\ connections' = connections \ {c}
                       /\ connection_users' = DictDel(connection_users, c)
                       /\ watched_files' = gone[1]
                       /\ last_known_state' = gone[2]
                       /\ ws' = [ws EXCEPT ![c].state = "closed"]
              ELSE /\ watched_files' = r[1]
                   /\ last_known_state' = r[2]
                   /\ UNCHANGED <<connections, connection_users, ws>>
        /\ UNCHANGED <<storeVars, redis_store, in_memory_mappings, redis_up,
                       user_transcripts, tasks, fs_events, historyVars>>

\* the endpoint receives {"type": "unwatch_transcript", "meeting_name": ...}
UnwatchTranscript(c, meeting_name) ==
    LET r == RemoveWatcher(watched_files, last_known_state, meeting_name, c)
    IN  /\ c \in DOMAIN ws
        /\ ws[c].state \in {"active", "gone", "dropped"}
        /\ watched_files' = r[1]
        /\ last_known_state' = r[2]
        /\ UNCHANGED <<storeVars, registryVars, connections, connection_users,
                       user_transcripts, tasks, ws, fs_events, last_send,
                       historyVars>>

\* text frames that are no request, watch or unwatch message: a text that
\* is not JSON, a JSON object with an unknown "type", a JSON object without
\* "type", and the JSON values that are no objects
Frames == {"text", "object", "typeless", "array", "string", "number", "null"}

\* json.loads(data) raises JSONDecodeError
NotJson(frame) == frame = "text"

\* json.loads(data) is a dict, so message.get("type") can be called
IsDict(frame) == frame \in {"object", "typeless"}

\* the endpoint receives a frame of Frames: JSONDecodeError is caught and
\* the frame ignored, a dict matches no branch, and message.get on anything
\* else raises AttributeError, which leaves the receive loop through the
\* outer except and the finally clause
ReceiveFrame(c, frame) ==
    /\ c \in DOMAIN ws
    /\ ws[c].state \in {"active", "gone", "dropped"}
    /\ frame \in Frames
    /\ IF NotJson(frame) \/ IsDict(frame)
          THEN UNCHANGED <<connections, connection_users, watched_files,
                           last_known_state, ws>>
          ELSE /\ DisconnectAll(<<>>, {}, {c})
               /\ ws' = [ws EXCEPT ![c].state = "closed"]
    /\ UNCHANGED <<storeVars, registryVars, user_transcripts, tasks,
                   fs_events, last_send, historyVars>>

\* the entries the request handler rebuilds from the transcript_text of an
\* archived document: one final entry for each line "speaker: text" whose
\* text is not empty once trimmed
RECURSIVE ParseTranscriptText(_)
ParseTranscriptText(transcript_text) ==
    IF transcript_text = <<>> THEN <<>>
    ELSE LET line == Head(transcript_text)
             rest == ParseTranscriptText(Tail(transcript_text))
         IN  IF Strip(line[2]) # <<>>
                THEN <<Entry(line[1], Strip(line[2]), TRUE)>> \o rest
                ELSE rest

\* the places asked in another order: the file before the vector database
LiveFirst == <<"file", "archive", "memory">>

\* the order in which the request handler asks the three places
TierOrder == <<"archive", "file", "memory">>

\* the place place holds something for user_id and room_name
TierHolds(place, user_id, room_name) ==
    CASE place = "archive" ->
             redis_up /\ <<user_id, room_name>> \in DOMAIN vector_db
      [] place = "file" -> FileExists(room_name)
      [] place = "memory" -> DictGet(user_transcripts, user_id, <<>>) # <<>>

\* the first place of order that holds something, "empty" when none does
RECURSIVE FirstTier(_, _, _)
FirstTier(order, user_id, room_name) ==
    IF order = <<>> THEN "empty"
    ELSE IF TierHolds(Head(order), user_id, room_name) THEN Head(order)
    ELSE FirstTier(Tail(order), user_id, room_name)

\* the transcripts list of the reply built from a place
TierEntries(place, user_id, room_name) ==
    CASE place = "archive" ->
             ParseTranscriptText(
                 vector_db[<<user_id, room_name>>].transcript_text)
      [] place = "file" -> LoadTranscripts(room_name, TRUE)
      [] place = "memory" -> user_transcripts[user_id]
      [] OTHER -> <<>>

\* the endpoint receives {"type": "request_transcript", "room_name": ...}: the
\* transcript is looked for in the vector database, then in the file, then
\* in the buffer of the user.  A send inside try/except that raises calls
\* disconnect(websocket) and the receive loop goes on; a send outside one
\* ends the endpoint through its finally clause.
RequestTranscript(c, room_name) ==
    LET user_id == ws[c].user_id
        file_user_id == GetUserIdForRoom(room_name)
        denied == file_user_id # NoUser /\ file_user_id # user_id
        tier == FirstTier(TierOrder, user_id, room_name)
        \* a reply that cannot be sent leaves transcript_found False, and
        \* the next place is asked
        reached_file == IF Alive(c) THEN tier = "file"
                        ELSE FileExists(room_name)
        denied_by_file == /\ reached_file
                          /\ FileData(room_name).user_id # NoUser
                          /\ FileData(room_name).user_id # user_id
        last_tier == IF Alive(c) THEN tier
                     ELSE IF denied_by_file THEN "file"
                     ELSE FirstTier(<<"memory">>, user_id, room_name)
        buffered == DictGet(user_transcripts, user_id, <<>>)
        \* the last send is outside every try/except
        unguarded == denied \/ denied_by_file \/ buffered = <<>>
        gone == RemoveAllWatchersForWebsocket(watched_files,
                                              last_known_state, c)
        type == IF denied \/ denied_by_file THEN "error"
                ELSE "complete_transcript"
    IN  /\ c \in DOMAIN ws
        /\ ws[c].state \in {"active", "gone", "dropped"}
        /\ redis_client' = TRUE
        /\ last_send' = Send(c, type, "request", room_name, user_id, Alive(c))
        /\ last_request' =
               [NoRequest EXCEPT
                   !.op = "request", !.meeting_name = room_name,
                   !.user_id = user_id, !.room_user_id = file_user_id,
                   !.status = type,
                   !.tier = IF denied THEN "none" ELSE last_tier,
                   !.entries = IF type = "error" THEN <<>>
                               ELSE TierEntries(last_tier, user_id,
                                                room_name)]
        /\ IF Alive(c)
              THEN UNCHANGED <<connections, connection_users, watched_files,
                               last_known_state, ws>>
              ELSE /\ connections' = connections \ {c}
                   /\ connection_users' = DictDel(connection_users, c)
                   /\ watched_files' = gone[1]
                   /\ last_known_state' = gone[2]
                   /\ ws' = [ws EXCEPT ![c].state =
                                 IF unguarded THEN "closed" ELSE "dropped"]
        /\ UNCHANGED <<storeVars, redis_store, in_memory_mappings, redis_up,
                       user_transcripts, tasks, fs_events, last_call,
                       last_stored>>

(***************************************************************************)
(* TranscriptFileWatcher.on_modified and the delivery it schedules.        *)
(***************************************************************************)
\* _async_send_updates(watchers, message, meeting_name), not started
UpdatesTask(meeting_name, new_entries, is_update, watchers) ==
    [BroadcastTask("", <<>>, FALSE, meeting_name, NoUser)
        EXCEPT !.kind = "updates", !.is_update = is_update,
               !.entries = new_entries, !.todo = watchers]

\* the entries of new_transcripts that differ from the entry at their place
ChangedEntries(last_transcripts, new_transcripts) ==
    LET changed == {i \in DOMAIN new_transcripts :
                       last_transcripts[i] # new_transcripts[i]}
        RECURSIVE Collect(_)
        Collect(i) ==
            IF i > Len(new_transcripts) THEN <<>>
            ELSE IF i \in changed
                THEN <<new_transcripts[i]>> \o Collect(i + 1)
                ELSE Collect(i + 1)
    IN  Collect(1)

\* a comparison that sends the whole file whenever it changed
DeltaWhole(last_transcripts, new_transcripts) ==
    [send |-> new_transcripts # last_transcripts,
     is_update |-> Len(new_transcripts) = Len(last_transcripts),
     remember |-> TRUE, entries |-> new_transcripts]

\* a comparison that treats a shorter file as an update of its entries
DeltaLoud(last_transcripts, new_transcripts) ==
    [send |-> new_transcripts # last_transcripts,
     is_update |-> Len(new_transcripts) <= Len(last_transcripts),
     remember |-> TRUE,
     entries |-> IF Len(new_transcripts) > Len(last_transcripts)
                     THEN SubSeq(new_transcripts, Len(last_transcripts) + 1,
                                 Len(new_transcripts))
                     ELSE new_transcripts]

\* a comparison that remembers the file only when it grew
DeltaForget(last_transcripts, new_transcripts) ==
    [send |-> Len(new_transcripts) > Len(last_transcripts),
     is_update |-> FALSE,
     remember |-> Len(new_transcripts) > Len(last_transcripts),
     entries |-> IF Len(new_transcripts) > Len(last_transcripts)
                     THEN SubSeq(new_transcripts, Len(last_transcripts) + 1,
                                 Len(new_transcripts))
                     ELSE <<>>]

\* the delta on_modified computes: what is sent, as what, and whether the
\* last known state is replaced
Delta(last_transcripts, new_transcripts) ==
    LET last_count == Len(last_transcripts)
        new_count == Len(new_transcripts)
    IN  IF new_count > last_count
            THEN [send |-> TRUE, is_update |-> FALSE, remember |-> TRUE,
                  entries |-> SubSeq(new_transcripts, last_count + 1,
                                     new_count)]
        ELSE IF new_count = last_count /\ new_transcripts # last_transcripts
            THEN [send |-> TRUE, is_update |-> TRUE, remember |-> TRUE,
                  entries |->
                      IF new_transcripts[new_count] # last_transcripts[last_count]
                          THEN <<new_transcripts[new_count]>>
                          ELSE ChangedEntries(last_transcripts,
                                              new_transcripts)]
        ELSE [send |-> FALSE, is_update |-> FALSE,
              remember |-> new_count < last_count, entries |-> <<>>]

\* the observer thread handles a modification event of <stem>.json
OnModifiedStep(stem) ==
    /\ stem \in fs_events
    /\ fs_events' = fs_events \ {stem}
    /\ IF stem \notin DOMAIN files
          THEN /\ watched_files' = DictDel(watched_files, stem)
               /\ last_known_state' = DictDel(last_known_state, stem)
               /\ UNCHANGED tasks
       ELSE IF stem \notin DOMAIN watched_files
          THEN UNCHANGED <<watched_files, last_known_state, tasks>>
          ELSE LET new_data == files[stem]
                   last_state == DictGet(last_known_state, stem, NewData)
                   d == Delta(last_state.transcripts, new_data.transcripts)
               IN  /\ last_known_state' =
                          IF d.remember
                              THEN DictSet(last_known_state, stem, new_data)
                              ELSE last_known_state
                   /\ IF d.send /\ watched_files[stem] # {}
                         THEN /\ Len(tasks) < MaxTasks
                              /\ tasks' = Append(tasks,
                                     UpdatesTask(stem, d.entries, d.is_update,
                                                 watched_files[stem]))
                         ELSE UNCHANGED tasks
                   /\ UNCHANGED watched_files
    /\ UNCHANGED <<storeVars, registryVars, connections, connection_users,
                   user_transcripts, ws, last_send>>

OnModified(stem) == OnModifiedStep(stem) /\ UNCHANGED historyVars

\* the branch on_modified takes for <stem>.json
DiffCall(stem) ==
    LET last_count ==
            Len(DictGet(last_known_state, stem, NewData).transcripts)
        new_count == Len(files[stem].transcripts)
    IN  [NoCall EXCEPT
            !.op = "diff", !.meeting_name = stem,
            !.outcome =
                IF stem \notin DOMAIN files THEN "missing"
                ELSE IF stem \notin DOMAIN watched_files THEN "unwatched"
                ELSE IF new_count > last_count THEN "grow"
                ELSE IF new_count < last_count THEN "shrink"
                ELSE IF files[stem].transcripts
                            # last_known_state[stem].transcripts
                    THEN "update" ELSE "same"]

\* on_modified, with the branch it took recorded
OnModifiedLogged(stem) ==
    /\ OnModifiedStep(stem)
    /\ last_call' = DiffCall(stem)
    /\ UNCHANGED <<last_stored, last_request>>

(***************************************************************************)
(* on_modified as the observer thread runs it beside the event loop: the   *)
(* checks before time.sleep(0.15) are one step, the read and the           *)
(* comparison after it another.                                            *)
(***************************************************************************)
\* the observer found <stem>.json present and watched, and sleeps
ObserverTask(stem) ==
    [BroadcastTask("", <<>>, FALSE, stem, NoUser)
        EXCEPT !.kind = "observer", !.pc = "sleep"]

OnModifiedCheck(stem) ==
    /\ stem \in fs_events
    /\ fs_events' = fs_events \ {stem}
    /\ IF stem \notin DOMAIN files
          THEN /\ watched_files' = DictDel(watched_files, stem)
               /\ last_known_state' = DictDel(last_known_state, stem)
               /\ UNCHANGED tasks
       ELSE IF stem \notin DOMAIN watched_files
          THEN UNCHANGED <<watched_files, last_known_state, tasks>>
          ELSE /\ Len(tasks) < MaxTasks
               /\ tasks' = Append(tasks, ObserverTask(stem))
               /\ UNCHANGED <<watched_files, last_known_state>>
    /\ UNCHANGED <<storeVars, registryVars, connections, connection_users,
                   user_transcripts, ws, last_send, historyVars>>

\* the observer at place i wakes up, reads the file and compares
OnModifiedRead(i) ==
    LET stem == tasks[i].meeting_name
        new_data == files[stem]
        last_state == DictGet(last_known_state, stem, NewData)
        d == Delta(last_state.transcripts, new_data.transcripts)
        watchers == DictGet(watched_files, stem, {})
    IN  /\ tasks[i].kind = "observer"
        /\ IF stem \notin DOMAIN files
              THEN /\ watched_files' = DictDel(watched_files, stem)
                   /\ last_known_state' = DictDel(last_known_state, stem)
                   /\ tasks' = RemoveTask(i)
              ELSE /\ last_known_state' =
                          IF d.remember
                              THEN DictSet(last_known_state, stem, new_data)
                              ELSE last_known_state
                   /\ tasks' =
                          IF d.send /\ watchers # {}
                              THEN [tasks EXCEPT ![i] =
                                       UpdatesTask(stem, d.entries,
                                                   d.is_update, watchers)]
                              ELSE RemoveTask(i)
                   /\ UNCHANGED watched_files
        /\ UNCHANGED <<storeVars, registryVars, connections, connection_users,
                       user_transcripts, ws, fs_events, last_send,
                       historyVars>>

(***************************************************************************)
(* The coroutines, one step for each stretch between two awaits.           *)
(***************************************************************************)
\* user_transcripts[-20:] in broadcast_transcript
BroadcastWindow == 20

\* an entry of the last n with exactly this speaker, text and final flag
InRecentExact(transcripts, n, speaker, text, is_final) ==
    \E i \in DOMAIN LastN(transcripts, n) :
        LastN(transcripts, n)[i] = Entry(speaker, text, is_final)

\* broadcast_transcript under the lock: the buffer of the user afterwards
\* and whether the event is a duplicate
BroadcastEntries(user_entries, speaker, text_stripped, is_final) ==
    LET new == Entry(speaker, text_stripped, is_final)
        last == user_entries[Len(user_entries)]
        same == user_entries # <<>> /\ last.speaker = speaker
        updated_existing ==
            /\ same
            /\ \/ ~last.is_final
               \/ /\ is_final
                  /\ last.text # text_stripped
                  /\ IsSubstring(last.text, text_stripped)
                  /\ Len(text_stripped) > Len(last.text)
        is_duplicate ==
            /\ is_final
            /\ user_entries # <<>>
            /\ ~updated_existing
            /\ \/ same /\ last.text = text_stripped
               \/ InRecentExact(user_entries, BroadcastWindow, speaker,
                                text_stripped, TRUE)
    IN  [entries |-> IF updated_existing THEN ReplaceLast(user_entries, new)
                     ELSE IF is_duplicate THEN user_entries
                     ELSE Append(user_entries, new),
         is_duplicate |-> is_duplicate]

\* a delivery that passes a watcher of another user over and leaves it in the
\* watch set
SkipMismatched(room_user_id, watcher_user_id) ==
    IF room_user_id = NoUser \/ watcher_user_id = room_user_id THEN "send"
    ELSE "skip"

\* a delivery without the ownership check
SendAlways(room_user_id, watcher_user_id) == "send"

\* _async_send_updates, lines 791 and 800: what happens to one watcher
WatcherAction(room_user_id, watcher_user_id) ==
    IF room_user_id # NoUser /\ watcher_user_id # room_user_id THEN "evict"
    ELSE IF room_user_id = NoUser \/ watcher_user_id = room_user_id
        THEN "send"
        ELSE "skip"

\* longest buffer of one user in TranscriptManager.user_transcripts
MaxBuffer == 2

\* the coroutine at place i of the queue is done
Finished(i, gone) ==
    /\ tasks' = RemoveTask(i)
    /\ ws' = Dropped(gone)

\* broadcast_transcript starts: it takes the lock, updates the buffer of the
\* user and lists the connections of that user
BroadcastStart(i) ==
    LET t == tasks[i]
        text_stripped == Strip(t.text)
        r == BroadcastEntries(DictGet(user_transcripts, t.user_id, <<>>),
                              t.speaker, text_stripped, t.is_final)
        user_connections == GetConnectionsForUser(t.user_id)
    IN  /\ t.kind = "broadcast" /\ t.pc = "start"
        /\ ~LockHeld
        /\ IF text_stripped = <<>> \/ t.user_id = NoUser
              THEN /\ tasks' = RemoveTask(i)
                   /\ UNCHANGED user_transcripts
              ELSE /\ Len(r.entries) <= MaxBuffer
                   /\ user_transcripts' =
                          DictSet(user_transcripts, t.user_id, r.entries)
                   /\ tasks' =
                          IF (t.is_final /\ r.is_duplicate)
                             \/ user_connections = {}
                              THEN RemoveTask(i)
                              ELSE [tasks EXCEPT ![i].pc = "send",
                                                 ![i].todo = user_connections]
        /\ UNCHANGED <<storeVars, registryVars, connections, connection_users,
                       watched_files, last_known_state, ws, fs_events,
                       last_send, historyVars>>

\* _async_send_updates starts: it looks the owner of the room up
UpdatesStart(i) ==
    LET t == tasks[i]
    IN  /\ t.kind = "updates" /\ t.pc = "start"
        /\ redis_client' = TRUE
        /\ tasks' = [tasks EXCEPT ![i].pc = "send",
                                  ![i].user_id = GetUserIdForRoom(t.meeting_name)]
        /\ UNCHANGED <<storeVars, redis_store, in_memory_mappings, redis_up,
                       connections, connection_users, user_transcripts,
                       watched_files, last_known_state, ws, fs_events,
                       last_send, historyVars>>

\* broadcast_transcript / send_complete_transcript: send_json to the next
\* connection; after the last one the connections whose send raised are
\* disconnected
BroadcastSend(i, c) ==
    LET t == tasks[i]
        disconnected == IF Alive(c) THEN t.disconnected
                        ELSE t.disconnected \cup {c}
    IN  /\ t.kind \in {"broadcast", "complete"} /\ t.pc = "send"
        /\ c \in t.todo
        /\ last_send' = Send(c, IF t.kind = "broadcast" THEN "transcript"
                                ELSE "complete_transcript",
                             t.kind, t.meeting_name, t.user_id, Alive(c))
        /\ IF t.todo = {c}
              THEN /\ Finished(i, disconnected)
                   /\ DisconnectAll(t.meeting_name, {}, disconnected)
              ELSE /\ tasks' = [tasks EXCEPT ![i].todo = @ \ {c},
                                             ![i].disconnected = disconnected]
                   /\ UNCHANGED <<connections, connection_users,
                                  watched_files, last_known_state, ws>>
        /\ UNCHANGED <<storeVars, registryVars, user_transcripts, fs_events,
                       historyVars>>

\* _async_send_updates: the next watcher of the captured list is removed from
\* the watch set or sent the message; after the last one the watchers whose
\* send raised are removed and disconnected
UpdatesSend(i, c) ==
    LET t == tasks[i]
        act == WatcherAction(t.user_id, GetUserIdForConnection(c))
        raised == act = "send" /\ ~Alive(c)
        disconnected == IF raised THEN t.disconnected \cup {c}
                        ELSE t.disconnected
        evicted == IF act = "evict"
                      THEN RemoveWatcher(watched_files, last_known_state,
                                         t.meeting_name, c)
                      ELSE <<watched_files, last_known_state>>
        cleaned == RemoveAllWatchers(
                       RemoveWatchers(evicted[1], evicted[2], t.meeting_name,
                                      disconnected)[1],
                       RemoveWatchers(evicted[1], evicted[2], t.meeting_name,
                                      disconnected)[2],
                       disconnected)
    IN  /\ t.kind = "updates" /\ t.pc = "send"
        /\ c \in t.todo
        /\ last_send' =
               IF act = "send"
                   THEN Send(c, IF t.is_update THEN "transcript_update"
                                ELSE "transcript_new",
                             "updates", t.meeting_name, t.user_id, Alive(c))
               ELSE IF act = "evict"
                   THEN [Send(c, "evict", "updates", t.meeting_name,
                              t.user_id, Alive(c))
                            EXCEPT !.attempted = FALSE, !.ok = FALSE,
                                   !.raised = FALSE]
                   ELSE last_send
        /\ IF t.todo = {c}
              THEN /\ Finished(i, disconnected)
                   /\ connections' = connections \ disconnected
                   /\ connection_users' =
                          [x \in (DOMAIN connection_users) \ disconnected |->
                              connection_users[x]]
                   /\ watched_files' = cleaned[1]
                   /\ last_known_state' = cleaned[2]
              ELSE /\ tasks' = [tasks EXCEPT ![i].todo = @ \ {c},
                                             ![i].disconnected = disconnected]
                   /\ watched_files' = evicted[1]
                   /\ last_known_state' = evicted[2]
                   /\ UNCHANGED <<connections, connection_users, ws>>
        /\ UNCHANGED <<storeVars, registryVars, user_transcripts, fs_events,
                       historyVars>>

(***************************************************************************)
(* The server after start-up: no file, no mapping, no connection.          *)
(***************************************************************************)
Init ==
    /\ files = EmptyDict
    /\ redis_store = EmptyDict
    /\ in_memory_mappings = EmptyDict
    /\ redis_up = TRUE
    /\ redis_client = FALSE
    /\ connections = {}
    /\ connection_users = EmptyDict
    /\ user_transcripts = EmptyDict
    /\ watched_files = EmptyDict
    /\ last_known_state = EmptyDict
    /\ tasks = <<>>
    /\ ws = EmptyDict
    /\ fs_events = {}
    /\ last_send = NoSend
    /\ last_call = NoCall
    /\ vector_db = EmptyDict
    /\ last_stored = EmptyDict
    /\ last_request = NoRequest
    /\ active_transcripts = EmptyDict

(***************************************************************************)
(* One meeting written by incremental events only.                         *)
(***************************************************************************)
StoreMeeting == <<"m">>

MergeTexts == {<<" ">>, <<"a">>, <<"a", " ">>, <<"b">>, <<"a", "b">>}

MergeNext ==
    \E speaker \in Speakers, text \in MergeTexts, is_final \in BOOLEAN :
        UpdateTranscriptIncremental(StoreMeeting, speaker, text, is_final,
                                    FALSE)

SpecMerge == Init /\ [][MergeNext]_vars

(***************************************************************************)
(* One owned meeting written by incremental events and bulk updates and    *)
(* read back through the filter.                                           *)
(***************************************************************************)
StoreUser == 1

ReadTexts == {<<" ">>, <<"a">>, <<"a", " ">>}

BulkListsOver(texts, n) == UNION {[1..k -> Speakers \X texts] : k \in 0..n}

ReadNext ==
    \/ StoreRoomUserMapping(StoreMeeting, StoreUser)
    \/ \E speaker \in Speakers, text \in ReadTexts, is_final \in BOOLEAN :
           UpdateTranscriptIncremental(StoreMeeting, speaker, text, is_final,
                                       FALSE)
    \/ \E transcripts \in BulkListsOver(ReadTexts, MaxBulk) :
           SendCompleteTranscript(StoreMeeting, transcripts)
    \/ LoadTranscriptFromFile(StoreMeeting, TRUE)

SpecRead == Init /\ [][ReadNext]_vars

(***************************************************************************)
(* The hub: two websockets of two users, one meeting owned by the first,    *)
(* the observer and the coroutines.                                        *)
(***************************************************************************)
\* longest file while websockets are connected
MaxHubEntries == 2

HubTexts == {<<"a">>}

HubNext ==
    \/ StoreRoomUserMapping(StoreMeeting, StoreUser)
    \/ \E text \in HubTexts, is_final \in BOOLEAN :
           /\ Len(FileData(StoreMeeting).transcripts) < MaxHubEntries
           /\ UpdateTranscriptIncremental(StoreMeeting, "Alice", text,
                                          is_final, TRUE)
    \/ SendCompleteTranscript(StoreMeeting, <<<<"Alice", <<"a">>>>>>)
    \/ \E c \in Conns, alive \in BOOLEAN :
           WebsocketConnect(c, UserOf(c), alive)
    \/ \E c \in Conns : PeerGone(c)
    \/ \E c \in Conns : EndpointDisconnect(c)
    \/ \E c \in Conns : WatchTranscript(c, StoreMeeting)
    \/ \E c \in Conns : UnwatchTranscript(c, StoreMeeting)
    \/ \E stem \in {SafeName(StoreMeeting)} : OnModified(stem)
    \/ \E i \in 1..MaxTasks : i <= Len(tasks) /\ BroadcastStart(i)
    \/ \E i \in 1..MaxTasks : i <= Len(tasks) /\ UpdatesStart(i)
    \/ \E i \in 1..MaxTasks, c \in Conns :
           i <= Len(tasks) /\ BroadcastSend(i, c)
    \/ \E i \in 1..MaxTasks, c \in Conns :
           i <= Len(tasks) /\ UpdatesSend(i, c)

SpecHub == Init /\ [][HubNext]_vars

(***************************************************************************)
(* The room ownership registry alone: two rooms, the users of the two      *)
(* websockets, and a Redis server that comes and goes.                     *)
(***************************************************************************)
Rooms == {StoreMeeting, <<"n">>}

Users == {UserOf(c) : c \in Conns}

RegistryNext ==
    \/ \E room_name \in Rooms, user_id \in Users :
           StoreRoomUserMapping(room_name, user_id)
    \/ \E room_name \in Rooms : DeleteRoomMapping(room_name)
    \/ \E room_name \in Rooms : CallGetUserIdForRoom(room_name)
    \/ RedisDown
    \/ RedisUp

SpecRegistry == Init /\ [][RegistryNext]_vars

(***************************************************************************)
(* One meeting that two users claim in the registry, written by events,    *)
(* bulk updates and edits.                                                 *)
(***************************************************************************)
OwnerLists == {<<<<"Alice", <<"a">>>>>>}

OwnerNext ==
    \/ \E user_id \in Users : StoreRoomUserMapping(StoreMeeting, user_id)
    \/ DeleteRoomMapping(StoreMeeting)
    \/ \E is_final \in BOOLEAN :
           /\ Len(FileData(StoreMeeting).transcripts) < MaxHubEntries
           /\ UpdateTranscriptIncremental(StoreMeeting, "Alice", <<"a">>,
                                          is_final, FALSE)
    \/ \E transcripts \in OwnerLists :
           SendCompleteTranscript(StoreMeeting, transcripts)
    \/ \E user_id \in Users, transcripts \in OwnerLists,
          stored \in {"none", "full"} :
           UpdateTranscript(StoreMeeting, user_id, transcripts, stored)

SpecOwner == Init /\ [][OwnerNext]_vars

(***************************************************************************)
(* One meeting of the first user, written by events and archived by        *)
(* stop_recording requests of both users, with a Redis server that comes   *)
(* and goes.                                                               *)
(***************************************************************************)
ArchiveNext ==
    \/ StoreRoomUserMapping(StoreMeeting, StoreUser)
    \/ RedisDown
    \/ RedisUp
    \/ \E is_final \in BOOLEAN :
           /\ Len(FileData(StoreMeeting).transcripts) < MaxHubEntries
           /\ UpdateTranscriptIncremental(StoreMeeting, "Alice", <<"a">>,
                                          is_final, FALSE)
    \/ \E user_id \in Users, stored \in StoreOutcomes :
           StopRecording(StoreMeeting, user_id, stored)

SpecArchive == Init /\ [][ArchiveNext]_vars

(***************************************************************************)
(* One websocket of the owner, events with and without text, the observer  *)
(* and the coroutines.                                                     *)
(***************************************************************************)
BlankHubTexts == {<<"a">>, <<" ">>, <<>>}

BlankNext ==
    \/ StoreRoomUserMapping(StoreMeeting, StoreUser)
    \/ \E text \in BlankHubTexts, is_final \in BOOLEAN :
           /\ Len(FileData(StoreMeeting).transcripts) < MaxHubEntries
           /\ UpdateTranscriptIncremental(StoreMeeting, "Alice", text,
                                          is_final, TRUE)
    \/ \E alive \in BOOLEAN : WebsocketConnect(StoreUser, StoreUser, alive)
    \/ PeerGone(StoreUser)
    \/ EndpointDisconnect(StoreUser)
    \/ WatchTranscript(StoreUser, StoreMeeting)
    \/ \E stem \in {SafeName(StoreMeeting)} : OnModified(stem)
    \/ \E i \in 1..MaxTasks : i <= Len(tasks) /\ BroadcastStart(i)
    \/ \E i \in 1..MaxTasks : i <= Len(tasks) /\ UpdatesStart(i)
    \/ \E i \in 1..MaxTasks :
           i <= Len(tasks) /\ BroadcastSend(i, StoreUser)
    \/ \E i \in 1..MaxTasks :
           i <= Len(tasks) /\ UpdatesSend(i, StoreUser)

SpecBlank == Init /\ [][BlankNext]_vars

(***************************************************************************)
(* Properties of the incremental merge (SpecMerge).                        *)
(***************************************************************************)
\* longest run of events of one speaker a property follows
MaxRun == 2

\* the events whose text is not empty once trimmed
EventTexts == {t \in Texts : Strip(t) # <<>>}

Runs == UNION {[1..n -> EventTexts] : n \in 1..MaxRun}

Stored == FileData(StoreMeeting).transcripts

LastEntry(seq) == seq[Len(seq)]

AllButLast(seq) == SubSeq(seq, 1, Len(seq) - 1)

StartsWith(seq, prefix) ==
    Len(prefix) <= Len(seq) /\ SubSeq(seq, 1, Len(prefix)) = prefix

\* the entries after update_transcript_incremental was called for each text
\* of a run, in order, for one speaker
RECURSIVE MergeRun(_, _, _, _)
MergeRun(transcripts, speaker, texts, is_final) ==
    IF texts = <<>> THEN transcripts
    ELSE MergeRun(MergeEntries(transcripts, speaker, Head(texts),
                               is_final).transcripts,
                  speaker, Tail(texts), is_final)

\* C1: whatever entries the meeting holds, for every speaker and every text
\* that is not empty once trimmed, a final event applied twice in a row
\* leaves the entries the first application left; on a meeting without
\* entries that is exactly one entry.
C1_FinalIdempotent ==
    \A speaker \in Speakers, text \in EventTexts :
        LET once == MergeRun(Stored, speaker, <<text>>, TRUE)
            twice == MergeRun(Stored, speaker, <<text, text>>, TRUE)
        IN  /\ twice = once
            /\ Stored = <<>> => Len(once) = 1

\* the same final event arrived a second time and was dropped
C1_Witness ==
    /\ last_call.op = "merge"
    /\ last_call.is_final
    /\ last_call.outcome = "dup_last"
    /\ Len(Stored) = 1

\* the run ends with its most recent text as the one trailing interim entry:
\* at most one entry more, everything before the last entry as it was
RunKept(transcripts, speaker, run) ==
    LET r == MergeRun(transcripts, speaker, run, FALSE)
    IN  /\ Len(r) <= Len(transcripts) + 1
        /\ r # <<>>
        /\ LastEntry(r) = Entry(speaker, Strip(LastEntry(run)), FALSE)
        /\ StartsWith(transcripts, AllButLast(r))

\* the look-back of an interim event: the last entry is not an interim
\* entry of the speaker, and the last InterimWindow entries hold a non-final
\* entry of the speaker with this text
Suppressed(transcripts, speaker, text) ==
    /\ transcripts # <<>>
    /\ ~(LastEntry(transcripts).speaker = speaker
         /\ ~LastEntry(transcripts).is_final)
    /\ \E i \in DOMAIN transcripts :
          /\ i > Len(transcripts) - InterimWindow
          /\ transcripts[i].speaker = speaker
          /\ ~transcripts[i].is_final
          /\ Strip(transcripts[i].text) = Strip(text)

\* C2 as stated: after every run of interim events of one speaker the
\* sequence has grown by at most one entry and ends with a non-final entry
\* holding the most recent text of the run.
C2_InterimReplaceAlways ==
    \A speaker \in Speakers, run \in Runs : RunKept(Stored, speaker, run)

\* C2: a run of interim events of one speaker leaves the sequence unchanged
\* when the look-back suppresses every event of the run; otherwise the
\* sequence has grown by at most one entry, ends with a non-final entry
\* holding the most recent text of the run, and keeps no earlier text of it.
C2_InterimReplaceLaw ==
    \A speaker \in Speakers, run \in Runs :
        IF \A i \in DOMAIN run : Suppressed(Stored, speaker, run[i])
            THEN MergeRun(Stored, speaker, run, FALSE) = Stored
            ELSE RunKept(Stored, speaker, run)

\* an interim event replaced the trailing interim entry of its speaker
C2_Witness ==
    /\ last_call.op = "merge"
    /\ ~last_call.is_final
    /\ last_call.outcome = "replace"
    /\ Len(Stored) = 2

\* C3: when the last entry is final, a final event of its speaker whose
\* trimmed text contains the trimmed text of that entry and is longer
\* replaces the entry in place; one that neither equals nor extends it and
\* that no final entry of the speaker among the last FinalWindow entries
\* holds is appended as a new final entry.
C3_ExtensionLaw ==
    (Stored # <<>> /\ LastEntry(Stored).is_final) =>
        \A text \in EventTexts :
            LET speaker == LastEntry(Stored).speaker
                old == Strip(LastEntry(Stored).text)
                new == Strip(text)
                extends == Len(new) > Len(old)
                           /\ \E i \in 1..(Len(new) - Len(old) + 1) :
                                  SubSeq(new, i, i + Len(old) - 1) = old
                present == \E i \in DOMAIN Stored :
                               /\ i > Len(Stored) - FinalWindow
                               /\ Stored[i].speaker = speaker
                               /\ Stored[i].is_final
                               /\ Strip(Stored[i].text) = new
                r == MergeRun(Stored, speaker, <<text>>, TRUE)
            IN  /\ extends =>
                       r = ReplaceLast(Stored, Entry(speaker, new, TRUE))
                /\ (new # old /\ ~extends /\ ~present) =>
                       r = Append(Stored, Entry(speaker, new, TRUE))

\* a final event extended the last final entry in place
C3_Witness ==
    /\ last_call.op = "merge"
    /\ last_call.is_final
    /\ last_call.outcome = "extend"
    /\ Len(Stored) = 1
    /\ Len(Stored[1].text) = 2

\* C4 as stated: on a meeting without entries, a run of interim events of
\* one speaker followed by a final event of that speaker leaves exactly one
\* entry, final, with the text of the final event.
C4_InterimThenFinal ==
    Stored = <<>> =>
        \A speaker \in Speakers, run \in Runs, text \in EventTexts :
            MergeRun(MergeRun(Stored, speaker, run, FALSE), speaker,
                     <<text>>, TRUE)
                = <<Entry(speaker, Strip(text), TRUE)>>

(***************************************************************************)
(* Properties of the hub (SpecHub).                                        *)
(***************************************************************************)
\* C5: every message of a broadcast or of a complete transcript addressed to
\* an owner, and every initial_transcripts message with the buffer of an
\* owner, is sent to a websocket of that owner only, whatever the
\* websockets watch.
C5_OwnershipIsolation ==
    (last_send.attempted
     /\ last_send.via \in {"broadcast", "complete", "connect"})
        => last_send.conn_owner = last_send.user_id

\* a broadcast reached its owner while a websocket of another user was
\* connected and watching the meeting
C5_Witness ==
    /\ last_send.via = "broadcast"
    /\ last_send.ok
    /\ StoreMeeting \in DOMAIN watched_files
    /\ \E c \in watched_files[StoreMeeting] :
          /\ c \in DOMAIN connection_users
          /\ connection_users[c] # last_send.user_id

C7_NoSendAfterDisconnect ==
    (last_send.via = "updates"
     /\ last_send.user_id # NoUser
     /\ ~last_send.registered)
        => /\ last_send.type = "evict"
           /\ ~last_send.attempted
           /\ ~last_send.raised

\* a delivery came to a websocket whose endpoint had ended with disconnect
\* after the observer had listed it as a watcher
C7_Witness ==
    /\ last_send.via = "updates"
    /\ last_send.type = "evict"
    /\ ~last_send.registered
    /\ last_send.conn \in DOMAIN ws
    /\ ws[last_send.conn].state = "closed"
    /\ ws[last_send.conn].user_id = last_send.user_id

(***************************************************************************)
(* Properties of bulk save and filtered read (SpecRead).                   *)
(***************************************************************************)
\* the entries a bulk save of a list of (speaker, text) is to leave
AsFinal(transcripts) ==
    [i \in 1..Len(transcripts) |->
        Entry(transcripts[i][1], transcripts[i][2], TRUE)]

\* a filtered read ran right after a bulk save of last_call.entries
ReadAfterBulk ==
    /\ last_call.op = "read"
    /\ last_call.after_bulk

\* C8 as stated: after a bulk save of entries with non-empty text and
\* pairwise distinct (speaker, text), the filtered read returns exactly
\* those entries, final, in order.
C8_RoundTripExact ==
    (/\ ReadAfterBulk
     /\ \A i \in DOMAIN last_call.entries : last_call.entries[i][2] # <<>>
     /\ \A i, j \in DOMAIN last_call.entries :
            i # j => last_call.entries[i] # last_call.entries[j])
        => last_call.result = AsFinal(last_call.entries)

\* C8: after a bulk save of entries whose text is not empty once trimmed
\* and whose (speaker, trimmed text) are pairwise distinct, the filtered
\* read returns exactly those entries, final, in order, and nothing of the
\* prior content.
C8_RoundTripTrimmed ==
    (/\ ReadAfterBulk
     /\ \A i \in DOMAIN last_call.entries :
            Strip(last_call.entries[i][2]) # <<>>
     /\ \A i, j \in DOMAIN last_call.entries :
            i # j => <<last_call.entries[i][1],
                       Strip(last_call.entries[i][2])>>
                     # <<last_call.entries[j][1],
                         Strip(last_call.entries[j][2])>>)
        => last_call.result = AsFinal(last_call.entries)

\* two entries saved over a file that held entries were read back
C8_Witness ==
    /\ ReadAfterBulk
    /\ last_call.replaced
    /\ Len(last_call.entries) = 2
    /\ last_call.result = AsFinal(last_call.entries)

\* only final entries, no (speaker, text) twice
FinalAndDistinct(transcripts) ==
    /\ \A i \in DOMAIN transcripts : transcripts[i].is_final
    /\ \A i, j \in DOMAIN transcripts :
           i # j => <<transcripts[i].speaker, transcripts[i].text>>
                    # <<transcripts[j].speaker, transcripts[j].text>>

\* only final entries, no text empty once trimmed, no (speaker, trimmed
\* text) twice
FinalAndDistinctTrimmed(transcripts) ==
    /\ \A i \in DOMAIN transcripts :
           transcripts[i].is_final /\ Strip(transcripts[i].text) # <<>>
    /\ \A i, j \in DOMAIN transcripts :
           i # j => <<transcripts[i].speaker, Strip(transcripts[i].text)>>
                    # <<transcripts[j].speaker, Strip(transcripts[j].text)>>

\* what the filtered read returned is what the file holds, filtered, and
\* filtering it again changes nothing
ReadIsStable ==
    last_call.op = "read" =>
        /\ last_call.result = FilterInterim(Stored)
        /\ FilterInterim(last_call.result) = last_call.result

\* a filtered read writes nothing, and a second one right after it returns
\* what the first returned
ReadChangesNothing ==
    LoadTranscriptFromFile(StoreMeeting, TRUE) =>
        /\ files' = files
        /\ last_call.op = "read" => last_call'.result = last_call.result

\* C9 as stated: the filtered read changes no file, returns the same twice
\* in a row, is unchanged by filtering its output again, and returns a
\* stored sequence of final entries without a repeated (speaker, text) as it
\* is.
C9_ReadIdempotentExact ==
    /\ [](ReadIsStable
          /\ ((last_call.op = "read" /\ FinalAndDistinct(Stored))
                 => last_call.result = Stored))
    /\ [][ReadChangesNothing]_vars

\* C9: the filtered read changes no file, returns the same twice in a row,
\* is unchanged by filtering its output again, and returns a stored sequence
\* as it is when all its entries are final, none has a text that is empty
\* once trimmed and no (speaker, trimmed text) repeats.
C9_ReadIdempotent ==
    /\ [](ReadIsStable
          /\ ((last_call.op = "read" /\ FinalAndDistinctTrimmed(Stored))
                 => last_call.result = Stored))
    /\ [][ReadChangesNothing]_vars

\* a second read in a row returned a filtered sequence shorter than the
\* stored one
C9_Witness ==
    /\ last_call.op = "read"
    /\ last_call.repeated
    /\ last_call.result # <<>>
    /\ Len(last_call.result) < Len(Stored)

\* the first occurrences of a sequence by key, in order
RECURSIVE FirstOccurrences(_, _, _)
FirstOccurrences(transcripts, seen, trimmed) ==
    IF transcripts = <<>> THEN <<>>
    ELSE LET entry == Head(transcripts)
             text == IF trimmed THEN Strip(entry.text) ELSE entry.text
             key == <<entry.speaker, text>>
         IN  IF key \in seen \/ (trimmed /\ text = <<>>)
                THEN FirstOccurrences(Tail(transcripts), seen, trimmed)
                ELSE <<entry>> \o FirstOccurrences(Tail(transcripts),
                                                   seen \cup {key}, trimmed)

C11_PromotionRule ==
    (Stored # <<>> /\ ~LastEntry(Stored).is_final) =>
        \A text \in EventTexts :
            LET speaker == LastEntry(Stored).speaker
                r == MergeRun(Stored, speaker, <<text>>, TRUE)
            IN  /\ Len(r) = Len(Stored)
                /\ AllButLast(r) = AllButLast(Stored)
                /\ LastEntry(r) = Entry(speaker, Strip(text), TRUE)

\* a third participant whose final entries fill a look-back window
FillerSpeaker == "Carol"

\* the i-th text of the filler: five characters that spell i in binary, so
\* that no two of them are equal and none contains another
FillerText(i) ==
    [j \in 1..5 |-> IF (i \div (2 ^ (j - 1))) % 2 = 1 THEN "d" ELSE "c"]

\* the entries after update_transcript_incremental was called with k final
\* events of the filler speaker, each with a text of its own
RECURSIVE AfterFiller(_, _)
AfterFiller(transcripts, k) ==
    IF k = 0 THEN transcripts
    ELSE LET before == AfterFiller(transcripts, k - 1)
         IN  MergeEntries(before, FillerSpeaker, FillerText(k), TRUE).transcripts

\* how many filler entries follow the stored ones: none, one, and the
\* numbers around the look-back of a final event
FinalDepths == {0, 1, FinalWindow - 2, FinalWindow - 1, FinalWindow}

\* the final events a window property is asked about: every speaker of the
\* meeting with every text, and the filler speaker with two of its texts
FinalEvents ==
    (Speakers \X EventTexts)
        \cup ({FillerSpeaker} \X {FillerText(1), FillerText(2)})

\* a final entry with exactly this speaker and text among the last n entries
HasFinal(seq, n, speaker, text) ==
    \E i \in DOMAIN seq :
        /\ i > Len(seq) - n
        /\ seq[i] = Entry(speaker, text, TRUE)

\* the final event is a promotion, an identical repeat of the last entry or
\* an extension of it
TakenByLast(seq, speaker, text) ==
    /\ seq # <<>>
    /\ LastEntry(seq).speaker = speaker
    /\ \/ ~LastEntry(seq).is_final
       \/ LastEntry(seq).text = text
       \/ /\ Len(text) > Len(LastEntry(seq).text)
          /\ \E i \in 1..(Len(text) - Len(LastEntry(seq).text) + 1) :
                 SubSeq(text, i, i + Len(LastEntry(seq).text) - 1)
                     = LastEntry(seq).text

\* C12: a final event that is neither a promotion, nor an identical repeat
\* of the last entry, nor an extension of it is dropped without a write
\* exactly when a final entry with its speaker and trimmed text is among the
\* last FinalWindow entries, and is appended as one final entry otherwise;
\* the last entry may be of the same or of another speaker, and the entry
\* may lie just inside or just outside the window.
C12_FinalWindowLaw ==
    \A k \in FinalDepths :
        LET seq == AfterFiller(Stored, k)
        IN  \A e \in FinalEvents :
                LET speaker == e[1]
                    text == Strip(e[2])
                    r == MergeEntries(seq, speaker, e[2], TRUE)
                IN  ~TakenByLast(seq, speaker, text) =>
                        IF HasFinal(seq, FinalWindow, speaker, text)
                            THEN ~r.write /\ r.transcripts = seq
                            ELSE /\ r.write
                                 /\ r.transcripts =
                                        Append(seq, Entry(speaker, text, TRUE))

\* a final event was dropped because the look-back found it, although the
\* last entry holds another text
C12_Witness ==
    /\ last_call.op = "merge"
    /\ last_call.is_final
    /\ last_call.outcome = "dup_window"
    /\ Len(Stored) >= 2

\* how many filler entries follow the stored ones: none, one, and the
\* numbers around the look-back of an interim event
InterimDepths == {0, 1, InterimWindow - 2, InterimWindow - 1, InterimWindow}

\* a non-final entry with exactly this speaker and text among the last n
HasInterim(seq, n, speaker, text) ==
    \E i \in DOMAIN seq :
        /\ i > Len(seq) - n
        /\ seq[i] = Entry(speaker, text, FALSE)

\* C13: an interim event that cannot replace the last entry, because that
\* entry is final or belongs to another speaker, leaves the sequence as it
\* is when a non-final entry with its speaker and trimmed text is among the
\* last InterimWindow entries, and is appended as one non-final entry
\* otherwise; the last entry may be a final entry of the same speaker or an
\* entry of another speaker, and the earlier entry may lie just inside or
\* just outside the window.
C13_InterimLookBack ==
    \A k \in InterimDepths, speaker \in Speakers, closing \in BOOLEAN :
        LET filled == AfterFiller(Stored, k)
            seq == IF closing
                      THEN MergeEntries(filled, speaker, FillerText(0),
                                        TRUE).transcripts
                      ELSE filled
        IN  (/\ seq # <<>>
             /\ \/ LastEntry(seq).is_final
                \/ LastEntry(seq).speaker # speaker) =>
                \A t \in EventTexts :
                    LET text == Strip(t)
                        r == MergeEntries(seq, speaker, t, FALSE).transcripts
                    IN  IF HasInterim(seq, InterimWindow, speaker, text)
                            THEN r = seq
                            ELSE r = Append(seq, Entry(speaker, text, FALSE))

\* an interim event was not appended because the look-back found it behind
\* an entry of another speaker
C13_Witness ==
    /\ last_call.op = "merge"
    /\ ~last_call.is_final
    /\ last_call.outcome = "dup_interim"
    /\ Len(Stored) >= 2
    /\ \E i \in 1..(Len(Stored) - 1) :
           /\ ~Stored[i].is_final
           /\ Stored[i].speaker # LastEntry(Stored).speaker

(***************************************************************************)
(* Events without text (SpecBlank).                                        *)
(***************************************************************************)
\* the texts that are empty once trimmed
BlankTexts == {t \in Texts : Strip(t) = <<>>}

\* the step is update_transcript_incremental with a text that is empty once
\* trimmed, interim or final, with a broadcast requested
BlankMerge ==
    \E speaker \in Speakers, text \in BlankTexts, is_final \in BOOLEAN :
        UpdateTranscriptIncremental(StoreMeeting, speaker, text, is_final,
                                    TRUE)

\* C14: update_transcript_incremental with a text that is empty once trimmed
\* changes neither the transcript files, nor the buffered entries of any
\* user, nor what is or will be sent to any websocket (no coroutine is
\* scheduled, no modification event is raised, no send happens), and it
\* returns normally.
C14_EmptyTextNoOp ==
    [][BlankMerge =>
          /\ UNCHANGED <<files, fs_events, user_transcripts, tasks, last_send,
                         connections, connection_users, watched_files,
                         last_known_state, ws>>
          /\ last_call'.outcome = "skip_empty"]_vars

\* a blank event arrived while a websocket of the owner was connected and
\* the meeting held an entry
C14_Witness ==
    /\ last_call.op = "merge"
    /\ last_call.outcome = "skip_empty"
    /\ Stored # <<>>
    /\ GetConnectionsForUser(StoreUser) # {}
    /\ GetUserIdForRoom(StoreMeeting) = StoreUser

(***************************************************************************)
(* Invariants of the entries written by incremental events (SpecMerge).    *)
(***************************************************************************)
\* the places of the non-final entries of a speaker
InterimPlaces(seq, speaker) ==
    {i \in DOMAIN seq : seq[i].speaker = speaker /\ ~seq[i].is_final}

\* C15 as stated: the entries of a meeting hold at most one non-final entry
\* of each speaker.
C15_OneInterimPerSpeaker ==
    \A speaker \in Speakers : Cardinality(InterimPlaces(Stored, speaker)) <= 1

\* C15: no two consecutive entries of a meeting are non-final entries of
\* the same speaker, so each speaker has at most one trailing non-final
\* entry; non-final entries of one speaker that are separated by entries of
\* other speakers stay in the sequence.
C15_NoAdjacentInterim ==
    \A i \in DOMAIN Stored :
        i < Len(Stored) =>
            ~(/\ ~Stored[i].is_final
              /\ ~Stored[i + 1].is_final
              /\ Stored[i].speaker = Stored[i + 1].speaker)

\* interim events of two speakers interleaved: the first speaker has two
\* non-final entries with an entry of the other speaker between them
C15_Witness ==
    /\ last_call.op = "merge"
    /\ ~last_call.is_final
    /\ Len(Stored) = 3
    /\ Stored[1].speaker = Stored[3].speaker
    /\ Stored[2].speaker # Stored[1].speaker
    /\ ~Stored[1].is_final /\ ~Stored[2].is_final /\ ~Stored[3].is_final

\* C16 as stated: no two final entries among the last FinalWindow entries
\* of a meeting have the same speaker and text.
C16_NoDuplicateFinal ==
    \A i, j \in DOMAIN Stored :
        (/\ i < j
         /\ i > Len(Stored) - FinalWindow
         /\ Stored[i].is_final /\ Stored[j].is_final)
            => ~(/\ Stored[i].speaker = Stored[j].speaker
                 /\ Stored[i].text = Stored[j].text)

(***************************************************************************)
(* Properties of the room ownership registry (SpecRegistry).               *)
(***************************************************************************)
\* C18 as stated: whatever puts and deletes were made while the Redis
\* server went away and came back, get_user_id_for_room returns for every
\* room the user of the most recent put that no delete followed, and none
\* after a delete; it never returns an owner stored before that put.
C18_LastWriteWins ==
    \A room_name \in Rooms :
        GetUserIdForRoom(room_name) = DictGet(last_stored, room_name, NoUser)

(***************************************************************************)
(* The owner in the metadata of a transcript file (SpecOwner).             *)
(***************************************************************************)
\* C17 as stated: once the file of a meeting carries a user_id, no step
\* that leaves the file in place (an incremental event, a bulk update, an
\* edit, whatever is stored in or deleted from the registry in between)
\* changes that user_id.
C17_OwnerSetOnce ==
    [][(/\ FileExists(StoreMeeting)
        /\ FileData(StoreMeeting).user_id # NoUser
        /\ SafeName(StoreMeeting) \in DOMAIN files')
          => files'[SafeName(StoreMeeting)].user_id
                 = FileData(StoreMeeting).user_id]_vars

(***************************************************************************)
(* Archiving by stop_recording (SpecArchive).                              *)
(***************************************************************************)
\* C20 as stated: after a stop_recording request for a file with at least
\* one entry whose text is not empty once trimmed, the file is gone only if
\* store_transcript returned a meeting id; and whenever it did not, or the
\* registry held no owner for the room, the file is still there and the
\* request did not end with status ok.
C20_ArchiveFailClosed ==
    (/\ last_request.op = "stop"
     /\ last_request.existed
     /\ last_request.has_text) =>
        /\ ~last_request.exists => last_request.stored = "full"
        /\ (\/ last_request.stored # "full"
            \/ last_request.room_user_id = NoUser)
               => /\ last_request.kept
                  /\ last_request.status # "ok"


(***************************************************************************)
(* The websockets of two users that watch, unwatch and request one meeting *)
(* while events are broadcast and peers go away.                           *)
(***************************************************************************)
WatchNext ==
    \/ StoreRoomUserMapping(StoreMeeting, StoreUser)
    \/ \E is_final \in BOOLEAN :
           /\ Len(FileData(StoreMeeting).transcripts) < MaxHubEntries
           /\ UpdateTranscriptIncremental(StoreMeeting, "Alice", <<"a">>,
                                          is_final, TRUE)
    \/ \E c \in Conns, alive \in BOOLEAN :
           WebsocketConnect(c, UserOf(c), alive)
    \/ \E c \in Conns : PeerGone(c)
    \/ \E c \in Conns : EndpointDisconnect(c)
    \/ \E c \in Conns : WatchTranscript(c, StoreMeeting)
    \/ \E c \in Conns : UnwatchTranscript(c, StoreMeeting)
    \/ \E c \in Conns : RequestTranscript(c, StoreMeeting)
    \/ \E i \in 1..MaxTasks : i <= Len(tasks) /\ BroadcastStart(i)
    \/ \E i \in 1..MaxTasks, c \in Conns :
           i <= Len(tasks) /\ BroadcastSend(i, c)

SpecWatch == Init /\ [][WatchNext]_vars

\* C19: No dead connection is addressable: every connection in the watch set
\* of any meeting is in the connection index with an owner, through any
\* sequence of connect, watch, unwatch, request, failed send and disconnect.
C19_WatchersAreIndexed ==
    \A meeting_name \in DOMAIN watched_files :
        \A websocket \in watched_files[meeting_name] :
            /\ websocket \in connections
            /\ websocket \in DOMAIN connection_users
            /\ connection_users[websocket] # NoUser


(***************************************************************************)
(* The owner's websocket asks for the whole transcript of a meeting that   *)
(* is written, archived and written again while Redis comes and goes.      *)
(***************************************************************************)
LookupNext ==
    \/ StoreRoomUserMapping(StoreMeeting, StoreUser)
    \/ RedisDown
    \/ RedisUp
    \/ \E is_final \in BOOLEAN :
           /\ Len(FileData(StoreMeeting).transcripts) < MaxHubEntries
           /\ UpdateTranscriptIncremental(StoreMeeting, "Alice", <<"a">>,
                                          is_final, TRUE)
    \/ \E stored \in {"none", "full"} :
           StopRecording(StoreMeeting, StoreUser, stored)
    \/ WebsocketConnect(StoreUser, StoreUser, TRUE)
    \/ RequestTranscript(StoreUser, StoreMeeting)
    \/ \E i \in 1..MaxTasks : i <= Len(tasks) /\ BroadcastStart(i)
    \/ \E i \in 1..MaxTasks :
           i <= Len(tasks) /\ BroadcastSend(i, StoreUser)

SpecLookup == Init /\ [][LookupNext]_vars

\* what the three places hold for the owner of the one meeting
InArchive ==
    redis_up /\ <<StoreUser, StoreMeeting>> \in DOMAIN vector_db

InLiveStore == SafeName(StoreMeeting) \in DOMAIN files

InMemory ==
    /\ StoreUser \in DOMAIN user_transcripts
    /\ user_transcripts[StoreUser] # <<>>

\* C21: a request_transcript from the owner over a connection that still
\* reads is answered with a complete_transcript from the first place that
\* holds the meeting, in the order vector database, file, buffer of the
\* owner; an unreachable vector database counts as a miss; when no place
\* holds anything the reply is a complete_transcript with an empty list and
\* never an error.
C21_ThreeTierLookup ==
    [][(Alive(StoreUser) /\ RequestTranscript(StoreUser, StoreMeeting)) =>
          /\ last_send'.type = "complete_transcript"
          /\ last_send'.ok
          /\ last_request'.status = "complete_transcript"
          /\ last_request'.tier =
                 IF InArchive THEN "archive"
                 ELSE IF InLiveStore THEN "file"
                 ELSE IF InMemory THEN "memory"
                 ELSE "empty"
          /\ last_request'.entries =
                 IF InArchive
                     THEN ParseTranscriptText(
                              vector_db[<<StoreUser, StoreMeeting>>]
                                  .transcript_text)
                 ELSE IF InLiveStore
                     THEN FilterInterim(files[SafeName(StoreMeeting)].transcripts)
                 ELSE IF InMemory THEN user_transcripts[StoreUser]
                 ELSE <<>>]_vars

\* the owner was answered from the file while the vector database, which
\* holds the meeting, could not be reached
C21_Witness ==
    /\ last_request.op = "request"
    /\ last_request.tier = "file"
    /\ last_send.via = "request" /\ last_send.ok
    /\ ~redis_up
    /\ <<StoreUser, StoreMeeting>> \in DOMAIN vector_db


(***************************************************************************)
(* Two clients that open websockets with every kind of credential, then    *)
(* watch, unwatch and request one meeting while events are broadcast.      *)
(***************************************************************************)
\* the credentials the client behind websocket c presents
CredentialsOf(c) ==
    {credential \in Credentials :
        credential.sub \in {NoUser, UserOf(c), UnknownUser}}

HandshakeNext ==
    \/ StoreRoomUserMapping(StoreMeeting, StoreUser)
    \/ \E is_final \in BOOLEAN :
           /\ Len(FileData(StoreMeeting).transcripts) < MaxHubEntries
           /\ UpdateTranscriptIncremental(StoreMeeting, "Alice", <<"a">>,
                                          is_final, TRUE)
    \/ \E c \in Conns, accepted \in BOOLEAN, alive \in BOOLEAN :
           \E credential \in CredentialsOf(c) :
               WebsocketOpen(c, credential, accepted, alive)
    \/ \E c \in Conns : PeerGone(c)
    \/ \E c \in Conns : EndpointDisconnect(c)
    \/ \E c \in Conns : WatchTranscript(c, StoreMeeting)
    \/ \E c \in Conns : UnwatchTranscript(c, StoreMeeting)
    \/ \E c \in Conns : RequestTranscript(c, StoreMeeting)
    \/ \E i \in 1..MaxTasks : i <= Len(tasks) /\ BroadcastStart(i)
    \/ \E i \in 1..MaxTasks, c \in Conns :
           i <= Len(tasks) /\ BroadcastSend(i, c)

SpecHandshake == Init /\ [][HandshakeNext]_vars

\* the credential passes every step of the handshake
Verified(credential) ==
    /\ credential.token = "good"
    /\ credential.db
    /\ credential.sub \in Users

\* websocket c is in the watch set of some meeting
Watching(c) ==
    \E meeting_name \in DOMAIN watched_files :
        c \in watched_files[meeting_name]

\* a websocket whose handshake failed is in no index and no watch set and was
\* sent nothing; every registered websocket has a resolved user
RejectedStaysOut ==
    /\ \A c \in DOMAIN ws :
           ws[c].state = "rejected" =>
               /\ c \notin connections
               /\ c \notin DOMAIN connection_users
               /\ ~Watching(c)
               /\ last_send.conn # c
    /\ \A c \in connections \cup DOMAIN connection_users :
           /\ c \in DOMAIN ws
           /\ ws[c].user_id \in Users
           /\ GetUserIdForConnection(c) = ws[c].user_id

\* a websocket is registered by its handshake only with a verified
\* credential, for the user the credential names
RegisteredOnlyVerified ==
    \A c \in (connections' \cup DOMAIN connection_users') \ DOMAIN ws :
        \A credential \in Credentials, accepted \in BOOLEAN,
           alive \in BOOLEAN :
            WebsocketOpen(c, credential, accepted, alive)
                => /\ Verified(credential)
                   /\ accepted
                   /\ connection_users'[c] = credential.sub

\* a websocket whose endpoint ran and that is not registered stays so
NeverRegisteredAgain ==
    \A c \in DOMAIN ws :
        c \notin DOMAIN connection_users =>
            /\ c \notin DOMAIN connection_users'
            /\ c \notin connections'

\* C22: Authentication precedes Active: a websocket enters the connection
\* index, and is sent transcript messages, only after its credential was
\* verified and its user resolved; a websocket that failed a handshake step
\* is never registered, never in a watch set and never sent anything; a
\* disconnected websocket is never registered again.
C22_AuthenticationPrecedesActive ==
    /\ []RejectedStaysOut
    /\ [][RegisteredOnlyVerified /\ NeverRegisteredAgain]_vars

\* one websocket was turned away for an unknown user while the other, once
\* registered, was sent a transcript and then disconnected
C22_Witness ==
    /\ 1 \in DOMAIN ws /\ ws[1].state = "closed"
    /\ last_send.conn = 1 /\ last_send.attempted
    /\ 2 \in DOMAIN ws /\ ws[2].state = "rejected"
    /\ ws[2].reason = "User not found"


\* the three authentication failures of the handshake
AuthFailures == {"Authentication required", "Invalid token", "User not found"}

\* C23: Distinct close codes: handshakes that fail for a missing credential,
\* an invalid credential and an unknown user close the socket with three
\* pairwise different close codes.
C23_DistinctCloseCodes ==
    \A c1 \in DOMAIN ws, c2 \in DOMAIN ws :
        (/\ ws[c1].state = "rejected" /\ ws[c1].reason \in AuthFailures
         /\ ws[c2].state = "rejected" /\ ws[c2].reason \in AuthFailures
         /\ ws[c1].reason # ws[c2].reason)
            => ws[c1].close_code # ws[c2].close_code


(***************************************************************************)
(* Two websockets of the same user, one meeting of that user, events and   *)
(* bulk updates broadcast while peers go away.                             *)
(***************************************************************************)
BroadcastNext ==
    \/ StoreRoomUserMapping(StoreMeeting, StoreUser)
    \/ \E is_final \in BOOLEAN :
           /\ Len(FileData(StoreMeeting).transcripts) < MaxHubEntries
           /\ UpdateTranscriptIncremental(StoreMeeting, "Alice", <<"a">>,
                                          is_final, TRUE)
    \/ SendCompleteTranscript(StoreMeeting, <<<<"Alice", <<"a">>>>>>)
    \/ \E c \in Conns, alive \in BOOLEAN :
           WebsocketConnect(c, StoreUser, alive)
    \/ \E c \in Conns : PeerGone(c)
    \/ \E c \in Conns : EndpointDisconnect(c)
    \/ \E c \in Conns : WatchTranscript(c, StoreMeeting)
    \/ \E i \in 1..MaxTasks : i <= Len(tasks) /\ BroadcastStart(i)
    \/ \E i \in 1..MaxTasks, c \in Conns :
           i <= Len(tasks) /\ BroadcastSend(i, c)

SpecBroadcast == Init /\ [][BroadcastNext]_vars

\* the step is one send of the broadcast at place i to connection c: the
\* send is made once, the others of the list stay to be sent, and after the
\* last send every connection whose send raised is out of the index and of
\* every watch set while the others stay registered
OneSendOfBroadcast(i, c) ==
    LET t == tasks[i]
        failed == IF last_send'.raised THEN t.disconnected \cup {c}
                  ELSE t.disconnected
    IN  /\ last_send'.conn = c
        /\ last_send'.attempted
        /\ last_send'.raised = ~Alive(c)
        /\ IF t.todo # {c}
              THEN /\ Len(tasks') = Len(tasks)
                   /\ tasks'[i].todo = t.todo \ {c}
                   /\ tasks'[i].disconnected = failed
                   /\ connections' = connections
                   /\ connection_users' = connection_users
              ELSE /\ Len(tasks') = Len(tasks) - 1
                   /\ connections' = connections \ failed
                   /\ DOMAIN connection_users' =
                          (DOMAIN connection_users) \ failed
                   /\ \A meeting_name \in DOMAIN watched_files' :
                          watched_files'[meeting_name] \cap failed = {}
                   /\ \A meeting_name \in DOMAIN watched_files :
                          watched_files[meeting_name] \ failed # {} =>
                              /\ meeting_name \in DOMAIN watched_files'
                              /\ watched_files'[meeting_name] =
                                     watched_files[meeting_name] \ failed

\* a broadcast that waits to send has someone left to send to, all of them
\* listed once for the owner of the broadcast, and none of them already noted
\* as failed
BroadcastCanGoOn ==
    \A i \in DOMAIN tasks :
        (tasks[i].kind \in {"broadcast", "complete"} /\ tasks[i].pc = "send")
            => /\ tasks[i].todo # {}
               /\ tasks[i].todo \cap tasks[i].disconnected = {}

\* C24: Self-healing broadcast: when a send to one connection fails during a
\* broadcast to an owner, that connection is removed from the connection
\* index and from every watch set, every other connection of the owner is
\* still sent the message, no send is retried, and the broadcast completes
\* without raising to its producer.
C24_SelfHealingBroadcast ==
    /\ []BroadcastCanGoOn
    /\ [][\A i \in DOMAIN tasks :
             \A c \in (IF tasks[i].pc = "send" THEN tasks[i].todo ELSE {}) :
                 BroadcastSend(i, c) => OneSendOfBroadcast(i, c)]_vars

\* a broadcast ended after its send to the first websocket raised and its
\* send to the second arrived: the first, a watcher, is out of the index and
\* of the watch set, the second is still registered
C24_Witness ==
    /\ tasks = <<>>
    /\ last_send.via = "broadcast" /\ last_send.conn = 2 /\ last_send.ok
    /\ 1 \in DOMAIN ws /\ ws[1].state = "dropped"
    /\ 2 \in connections /\ 1 \notin connections
    /\ ~Watching(1)
    /\ StoreMeeting \in DOMAIN watched_files


\* the step handles watcher c in the delivery at place i, which found the
\* registered owner of the meeting: a watcher of another user leaves the
\* watch set of the meeting and is sent nothing, a watcher of the owner is
\* sent the delta
OneWatcherOfDelivery(i, c) ==
    LET t == tasks[i]
    IN  IF GetUserIdForConnection(c) # t.user_id
            THEN /\ \/ t.meeting_name \notin DOMAIN watched_files'
                    \/ c \notin watched_files'[t.meeting_name]
                 /\ ~last_send'.attempted
                 /\ last_send'.conn = c
            ELSE /\ last_send'.conn = c
                 /\ last_send'.attempted
                 /\ last_send'.type \in {"transcript_new", "transcript_update"}
                 /\ last_send'.ok = Alive(c)

\* C25: Mismatched watcher eviction: when a watch delta of a meeting is
\* delivered and a watcher's user differs from the meeting's registered
\* owner, the watcher is removed from the meeting's watch set during that
\* delivery and is sent nothing, while the watchers of the owner are sent the
\* delta.
C25_MismatchedWatcherEvicted ==
    [][\A i \in DOMAIN tasks :
          \A c \in (IF tasks[i].kind = "updates" /\ tasks[i].pc = "send"
                       /\ tasks[i].user_id # NoUser
                       THEN tasks[i].todo ELSE {}) :
              UpdatesSend(i, c) => OneWatcherOfDelivery(i, c)]_vars

\* the second user's websocket, a watcher since before the owner was known,
\* was just removed from the watch set by a delivery that goes on to the
\* owner's websocket
C25_Witness ==
    /\ last_send.type = "evict" /\ last_send.conn = 2
    /\ 2 \in connections
    /\ ~Watching(2)
    /\ Watching(1)
    /\ GetUserIdForRoom(StoreMeeting) = StoreUser
    /\ \E i \in DOMAIN tasks : tasks[i].kind = "updates" /\ tasks[i].todo = {1}


(***************************************************************************)
(* Two users who both ask for tokens of one room, and their websockets     *)
(* that watch and request its transcript.                                  *)
(***************************************************************************)
DenialNext ==
    \/ \E user_id \in Users : StoreRoomUserMapping(StoreMeeting, user_id)
    \/ DeleteRoomMapping(StoreMeeting)
    \/ \E is_final \in BOOLEAN :
           /\ Len(FileData(StoreMeeting).transcripts) < MaxHubEntries
           /\ UpdateTranscriptIncremental(StoreMeeting, "Alice", <<"a">>,
                                          is_final, FALSE)
    \/ \E c \in Conns : WebsocketConnect(c, UserOf(c), TRUE)
    \/ \E c \in Conns : WatchTranscript(c, StoreMeeting)
    \/ \E c \in Conns : UnwatchTranscript(c, StoreMeeting)
    \/ \E c \in Conns : RequestTranscript(c, StoreMeeting)
    \/ \E c \in Conns, frame \in Frames : ReceiveFrame(c, frame)

SpecDenial == Init /\ [][DenialNext]_vars

\* the registry or the metadata of the file names an owner of the meeting
\* that is not user_id
OwnedByAnother(meeting_name, user_id) ==
    \/ GetUserIdForRoom(meeting_name) \notin {NoUser, user_id}
    \/ /\ FileExists(meeting_name)
       /\ FileData(meeting_name).user_id \notin {NoUser, user_id}

\* the websocket was answered with an error, is still registered and in its
\* receive loop, and does not watch the meeting
DeniedAndOut(c, meeting_name) ==
    /\ last_send'.conn = c
    /\ last_send'.type = "error"
    /\ last_send'.ok
    /\ c \in connections'
    /\ c \in DOMAIN connection_users'
    /\ ws'[c].state = "active"
    /\ \/ meeting_name \notin DOMAIN watched_files'
       \/ c \notin watched_files'[meeting_name]

\* C26: Access denial on watch/request: a watch_transcript or
\* request_transcript for a meeting whose owner, in the registry or in the
\* metadata of the file, differs from the connection's user is answered with
\* an error message and no entries; the connection stays registered and
\* Active and is not in the meeting's watch set afterwards.
C26_AccessDenied ==
    [][\A c \in {x \in Conns : Alive(x)} :
          (/\ OwnedByAnother(StoreMeeting, ws[c].user_id)
           /\ \/ WatchTranscript(c, StoreMeeting)
              \/ RequestTranscript(c, StoreMeeting))
              => DeniedAndOut(c, StoreMeeting)]_vars


\* C27: Malformed messages are ignored: an inbound frame that is not valid
\* JSON, or is valid JSON without a known type (JSON values without any type
\* field included), changes no hub state, sends nothing and leaves the
\* connection registered and Active.
C27_MalformedIgnored ==
    [][\A c \in {x \in Conns : Alive(x)}, frame \in Frames :
          ReceiveFrame(c, frame)
              => /\ UNCHANGED <<connections, connection_users,
                                user_transcripts, watched_files,
                                last_known_state, tasks, last_send>>
                 /\ c \in connections'
                 /\ ws'[c].state = "active"]_vars


(***************************************************************************)
(* One meeting of the first user written by events and by the lists the    *)
(* recording process posts.                                                *)
(***************************************************************************)
PostTexts == {<<"a">>, <<"b">>}

PostNext ==
    \/ StoreRoomUserMapping(StoreMeeting, StoreUser)
    \/ DeleteRoomMapping(StoreMeeting)
    \/ \E speaker \in Speakers, is_final \in BOOLEAN :
           /\ Len(FileData(StoreMeeting).transcripts) < MaxHubEntries
           /\ UpdateTranscriptIncremental(StoreMeeting, speaker, <<"a">>,
                                          is_final, FALSE)
    \/ \E transcripts \in BulkListsOver(PostTexts, MaxBulk) :
           UpdateTranscriptsFromMain(StoreMeeting, transcripts)

SpecPost == Init /\ [][PostNext]_vars

\* the submitted (speaker, text) pairs as entries, every one final
Submitted(transcripts) ==
    [i \in 1..Len(transcripts) |->
        [speaker |-> transcripts[i][1], text |-> transcripts[i][2],
         is_final |-> TRUE]]

\* C28: HTTP bulk update maps 1:1 onto bulkReplace: for every request body
\* of an owned room, an empty transcripts list included, after
\* POST /transcripts/update the entries in the file and the buffer of the
\* owner both equal the submitted sequence with every entry final.
C28_BulkUpdateReplaces ==
    [][\A transcripts \in BulkListsOver(PostTexts, MaxBulk) :
          (/\ GetUserIdForRoom(StoreMeeting) # NoUser
           /\ UpdateTranscriptsFromMain(StoreMeeting, transcripts))
              => /\ FileData(StoreMeeting)'.transcripts
                        = Submitted(transcripts)
                 /\ user_transcripts'[GetUserIdForRoom(StoreMeeting)]
                        = Submitted(transcripts)]_vars


(***************************************************************************)
(* One meeting written by a producer in another process, whose read and    *)
(* write are two steps, and by the lists posted to the server.             *)
(***************************************************************************)
SerialNext ==
    \/ StoreRoomUserMapping(StoreMeeting, StoreUser)
    \/ \E speaker \in Speakers, text \in PostTexts, is_final \in BOOLEAN :
           /\ Len(FileData(StoreMeeting).transcripts) < MaxHubEntries
           /\ ProducerRead(StoreMeeting, speaker, text, is_final)
    \/ \E i \in 1..MaxTasks : i <= Len(tasks) /\ ProducerWrite(i)
    \/ \E transcripts \in BulkListsOver(PostTexts, 1) :
           UpdateTranscriptsFromMain(StoreMeeting, transcripts)

SpecSerial == Init /\ [][SerialNext]_vars

\* the entries of the file once the event of the call at place i is merged
\* into the entries the file holds now
MergedIntoCurrent(i) ==
    LET current == FileData(tasks[i].meeting_name).transcripts
        r == MergeEntries(current, tasks[i].speaker, tasks[i].text,
                          tasks[i].is_final)
    IN  IF r.write THEN r.transcripts ELSE current

\* C29: Per-meeting serialization: when a merge and a bulk replace of the
\* same meeting run concurrently, the persisted transcript afterwards is what
\* the two operations leave when applied one after the other in some order:
\* the merge applied to what the bulk replace wrote, or, when a bulk replace
\* came after the merge read the file, the list of that bulk replace.
C29_PerMeetingSerialization ==
    [][\A i \in {j \in DOMAIN tasks : tasks[j].kind = "merge"} :
       \A meeting_name \in {tasks[i].meeting_name} :
          ProducerWrite(i) =>
              \/ FileData(meeting_name)'.transcripts = MergedIntoCurrent(i)
              \/ /\ FileData(meeting_name).transcripts # tasks[i].entries
                 /\ FileData(meeting_name)'.transcripts
                        = FileData(meeting_name).transcripts]_vars


\* C30: Cross-thread handoff: a step of the file-watch thread (on_modified)
\* never writes the watch table or the last-known-state cache and never sends
\* to a connection itself; it only hands a task to the event loop.
C30_CrossThreadHandoff ==
    [][\A stem \in fs_events :
          OnModified(stem) =>
              UNCHANGED <<watched_files, last_known_state, last_send, ws>>]_vars


(***************************************************************************)
(* One watched meeting whose file grows by single events and is replaced   *)
(* by posted lists, and the observer comparing it with the last known      *)
(* state.                                                                  *)
(***************************************************************************)
\* the lists posted: one entry, two entries, and two entries that differ from
\* the former in both places or in the first place only
DiffLists ==
    {<<<<"Alice", <<"a">>>>>>,
     <<<<"Alice", <<"a">>>>, <<"Bob", <<"b">>>>>>,
     <<<<"Alice", <<"b">>>>, <<"Bob", <<"a">>>>>>,
     <<<<"Alice", <<"b">>>>, <<"Bob", <<"b">>>>>>}

DiffNext ==
    \/ StoreRoomUserMapping(StoreMeeting, StoreUser)
    \/ \E speaker \in Speakers, text \in HubTexts, is_final \in BOOLEAN :
           /\ Len(FileData(StoreMeeting).transcripts) < MaxHubEntries
           /\ UpdateTranscriptIncremental(StoreMeeting, speaker, text,
                                          is_final, FALSE)
    \/ \E transcripts \in DiffLists :
           UpdateTranscriptsFromMain(StoreMeeting, transcripts)
    \/ WebsocketConnect(StoreUser, StoreUser, TRUE)
    \/ WatchTranscript(StoreUser, StoreMeeting)
    \/ UnwatchTranscript(StoreUser, StoreMeeting)
    \/ \E stem \in {SafeName(StoreMeeting)} : OnModifiedLogged(stem)
    \/ \E i \in 1..MaxTasks : i <= Len(tasks) /\ UpdatesStart(i)
    \/ \E i \in 1..MaxTasks, c \in Conns :
           i <= Len(tasks) /\ UpdatesSend(i, c)

SpecDiff == Init /\ [][DiffNext]_vars

\* the observer compares the file of a watched meeting with what it knows
Compared(stem) ==
    /\ stem \in DOMAIN files
    /\ stem \in DOMAIN watched_files
    /\ OnModifiedStep(stem)

KnownEntries(stem) == DictGet(last_known_state, stem, NewData).transcripts

\* exactly one delivery is scheduled by the step, with these entries
OneDelta(stem, is_update, entries) ==
    /\ Len(tasks') = Len(tasks) + 1
    /\ SubSeq(tasks', 1, Len(tasks)) = tasks
    /\ tasks'[Len(tasks')].kind = "updates"
    /\ tasks'[Len(tasks')].meeting_name = stem
    /\ tasks'[Len(tasks')].is_update = is_update
    /\ tasks'[Len(tasks')].entries = entries
    /\ tasks'[Len(tasks')].todo = watched_files[stem]

\* a delivery that is no update is sent as transcript_new
SentAsScheduled ==
    \A i \in DOMAIN tasks, c \in Conns :
        (/\ tasks[i].kind = "updates" /\ tasks[i].pc = "send"
         /\ UpdatesSend(i, c)
         /\ last_send' # last_send
         /\ last_send'.attempted) =>
            last_send'.type = IF tasks[i].is_update THEN "transcript_update"
                              ELSE "transcript_new"

\* C31: Diff, growth case: when the observer finds the file of a watched
\* meeting longer than the last known state, exactly one transcript_new
\* delta (is_update false) is scheduled, and its entries are the entries of
\* the file beyond the old length, in order.
C31_DiffGrowth ==
    [][/\ \A stem \in fs_events :
             (Compared(stem)
              /\ Len(files[stem].transcripts) > Len(KnownEntries(stem))) =>
                 OneDelta(stem, FALSE,
                     [k \in 1..(Len(files[stem].transcripts)
                                    - Len(KnownEntries(stem))) |->
                         files[stem].transcripts[Len(KnownEntries(stem)) + k]])
       /\ SentAsScheduled]_vars

\* the observer found a file of two entries, one more than it knew, and the
\* delivery of the second entry is scheduled
C31_Witness ==
    /\ last_call.op = "diff" /\ last_call.outcome = "grow"
    /\ tasks # <<>>
    /\ tasks[1].kind = "updates" /\ ~tasks[1].is_update
    /\ Len(tasks[1].entries) = 1
    /\ Len(FileData(StoreMeeting).transcripts) = 2
    /\ tasks[1].entries[1] = FileData(StoreMeeting).transcripts[2]


\* the places where two sequences of one length differ
DifferingPlaces(last_transcripts, new_transcripts) ==
    {k \in DOMAIN new_transcripts : new_transcripts[k] # last_transcripts[k]}

\* the entries of a sequence at a set of places, in order
RECURSIVE EntriesAt(_, _, _)
EntriesAt(transcripts, places, k) ==
    IF k > Len(transcripts) THEN <<>>
    ELSE IF k \in places
        THEN <<transcripts[k]>> \o EntriesAt(transcripts, places, k + 1)
        ELSE EntriesAt(transcripts, places, k + 1)

\* C32: Diff, equal-length case: when the file has as many entries as the
\* last known state but differs from it, one transcript_update delta is
\* scheduled; it holds only the last entry if and only if the last place is
\* the only place that differs, and otherwise the new entry of every place
\* that differs.
C32_DiffEqualLength ==
    [][\A stem \in fs_events :
          (/\ Compared(stem)
           /\ Len(files[stem].transcripts) = Len(KnownEntries(stem))
           /\ files[stem].transcripts # KnownEntries(stem)) =>
              OneDelta(stem, TRUE,
                  EntriesAt(files[stem].transcripts,
                            DifferingPlaces(KnownEntries(stem),
                                            files[stem].transcripts), 1))]_vars


\* C33: Diff, shrink case: when the observer finds the file of a watched
\* meeting shorter than the last known state, it schedules no delivery and
\* sends nothing, and the last known state becomes what the file holds, so
\* that the next comparison starts from the shorter sequence.
C33_DiffShrink ==
    [][\A stem \in fs_events :
          (/\ Compared(stem)
           /\ Len(files[stem].transcripts) < Len(KnownEntries(stem))) =>
              /\ tasks' = tasks
              /\ last_send' = last_send
              /\ stem \in DOMAIN last_known_state'
              /\ last_known_state'[stem] = files[stem]]_vars

\* the observer found the file shorter than it knew and now knows the file
C33_Witness ==
    /\ last_call.op = "diff" /\ last_call.outcome = "shrink"
    /\ SafeName(StoreMeeting) \in DOMAIN last_known_state
    /\ Len(last_known_state[SafeName(StoreMeeting)].transcripts) = 1
    /\ tasks = <<>>

\* what the file held when the observer handled its most recent event is
\* what the observer knows: the event was handled and no later one waits
ObserverUpToDate(stem) ==
    /\ stem \in DOMAIN files
    /\ stem \in DOMAIN watched_files
    /\ stem \notin fs_events

\* C34: Cache tracks the store: once the observer has handled the
\* modification events of a watched meeting with a readable file, the last
\* known state of the meeting holds the entry sequence of that file, whether
\* the file had grown, changed in place or shrunk.
C34_CacheTracksStore ==
    /\ [](\A stem \in DOMAIN files :
             ObserverUpToDate(stem) =>
                 KnownEntries(stem) = files[stem].transcripts)
    /\ [][\A stem \in fs_events :
             Compared(stem) =>
                 DictGet(last_known_state', stem, NewData).transcripts
                     = files[stem].transcripts]_vars

\* the observer found entries changed in place and knows the file it read
C34_Witness ==
    /\ last_call.op = "diff" /\ last_call.outcome = "update"
    /\ ObserverUpToDate(SafeName(StoreMeeting))
    /\ last_known_state[SafeName(StoreMeeting)].transcripts
           = FileData(StoreMeeting).transcripts
    /\ Len(FileData(StoreMeeting).transcripts) = 2


(***************************************************************************)
(* One watched meeting, its watchers coming and going on the event loop    *)
(* while the observer thread handles the changes of the file.              *)
(***************************************************************************)
ObserverNext ==
    \/ StoreRoomUserMapping(StoreMeeting, StoreUser)
    \/ \E is_final \in BOOLEAN :
           /\ Len(FileData(StoreMeeting).transcripts) < MaxHubEntries
           /\ UpdateTranscriptIncremental(StoreMeeting, "Alice", <<"a">>,
                                          is_final, FALSE)
    \/ \E c \in Conns : WebsocketConnect(c, StoreUser, TRUE)
    \/ \E c \in Conns : PeerGone(c)
    \/ \E c \in Conns : EndpointDisconnect(c)
    \/ \E c \in Conns : WatchTranscript(c, StoreMeeting)
    \/ \E c \in Conns : UnwatchTranscript(c, StoreMeeting)
    \/ \E stem \in {SafeName(StoreMeeting)} : OnModifiedCheck(stem)
    \/ \E i \in 1..MaxTasks : i <= Len(tasks) /\ OnModifiedRead(i)
    \/ \E i \in 1..MaxTasks : i <= Len(tasks) /\ UpdatesStart(i)
    \/ \E i \in 1..MaxTasks, c \in Conns :
           i <= Len(tasks) /\ UpdatesSend(i, c)

SpecObserver == Init /\ [][ObserverNext]_vars

\* C35: Cache lifetime: in every reachable state every meeting that has a
\* last known state has at least one watcher, also when the last watcher
\* leaves while the observer thread is handling a change of the file.
C35_CacheLifetime ==
    \A meeting_name \in DOMAIN last_known_state :
        /\ meeting_name \in DOMAIN watched_files
        /\ watched_files[meeting_name] # {}


(***************************************************************************)
(* One meeting kept in a file and in a Redis key, each fed by its own      *)
(* variant of the incremental update.                                      *)
(***************************************************************************)
VariantNext ==
    \/ \E speaker \in Speakers, text \in HubTexts, is_final \in BOOLEAN :
           /\ Len(FileData(StoreMeeting).transcripts) < MaxHubEntries
           /\ UpdateTranscriptIncremental(StoreMeeting, speaker, text,
                                          is_final, FALSE)
    \/ \E speaker \in Speakers, text \in HubTexts, is_final \in BOOLEAN :
           /\ Len(ActiveData(StoreMeeting)) < MaxHubEntries
           /\ UpdateTranscriptIncrementalRedis(StoreMeeting, speaker, text,
                                               is_final)
    \/ RedisDown
    \/ RedisUp

SpecVariants == Init /\ [][VariantNext]_vars

\* C36: Store variants agree: for every stored entry sequence and every
\* event (speaker, text, is_final), update_transcript_incremental_redis
\* leaves the same entry sequence as update_transcript_incremental: whenever
\* the file and the key hold the same entries, every event leaves the same
\* entries in both.
C36_StoreVariantsAgree ==
    Stored = ActiveData(StoreMeeting) =>
        \A speaker \in Speakers, text \in EventTexts, is_final \in BOOLEAN :
            MergeEntriesRedis(Stored, speaker, text, is_final).transcripts
                = MergeEntries(Stored, speaker, text, is_final).transcripts


(***************************************************************************)
(* Three meeting names, two of which the file-name sanitising maps to one  *)
(* file stem.                                                              *)
(***************************************************************************)
NameRooms == {<<"m">>, <<"n">>, <<"m", "!">>}

\* a merge, a bulk replace or an archive of one meeting
OperationOn(meeting_name) ==
    \/ /\ Len(FileData(meeting_name).transcripts) < MaxHubEntries
       /\ UpdateTranscriptIncremental(meeting_name, "Alice", <<"a">>,
                                      TRUE, FALSE)
    \/ UpdateTranscriptsFromMain(meeting_name, <<<<"Bob", <<"b">>>>>>)
    \/ StopRecording(meeting_name, StoreUser, "full")

NamesNext ==
    \/ StoreRoomUserMapping(StoreMeeting, StoreUser)
    \/ \E meeting_name \in NameRooms : OperationOn(meeting_name)

SpecNames == Init /\ [][NamesNext]_vars

\* C37: Meetings are independent: for any two distinct meeting names, a
\* merge, a bulk replace or an archive of one of them leaves the persisted
\* entries and owner of the other, and whether it has a file, unchanged.
C37_MeetingsIndependent ==
    [][\A one \in NameRooms, other \in NameRooms :
          (one # other /\ OperationOn(one)) =>
              /\ FileExists(other)' = FileExists(other)
              /\ FileData(other)' = FileData(other)]_vars


(***************************************************************************)
(* A watcher that stays connected, a writer that appends, and the observer *)
(* and its deliveries running whenever they can: one meeting whose name is *)
(* its file stem and one whose name the sanitising rewrites.               *)
(***************************************************************************)
DeliveryRooms == {StoreMeeting, <<"m", " ", "n">>}

ObserverStep == \E meeting_name \in DeliveryRooms :
                    OnModified(SafeName(meeting_name))

DeliveryStep ==
    \/ \E i \in 1..MaxTasks : i <= Len(tasks) /\ UpdatesStart(i)
    \/ \E i \in 1..MaxTasks, c \in Conns :
           i <= Len(tasks) /\ UpdatesSend(i, c)

DeliveryNext ==
    \/ \E room_name \in DeliveryRooms :
           StoreRoomUserMapping(room_name, StoreUser)
    \/ WebsocketConnect(StoreUser, StoreUser, TRUE)
    \/ \E meeting_name \in DeliveryRooms :
           /\ meeting_name \notin DOMAIN watched_files
           /\ WatchTranscript(StoreUser, meeting_name)
    \/ \E meeting_name \in DeliveryRooms, speaker \in Speakers :
           /\ Len(FileData(meeting_name).transcripts) < MaxHubEntries
           /\ UpdateTranscriptIncremental(meeting_name, speaker, <<"a">>,
                                          TRUE, FALSE)
    \/ ObserverStep
    \/ DeliveryStep

\* the observer thread and the event loop are not starved
SpecDelivery ==
    /\ Init /\ [][DeliveryNext]_vars
    /\ WF_vars(ObserverStep)
    /\ WF_vars(DeliveryStep)

\* the owner's connection watches the meeting, and entries were appended to
\* the file since the snapshot it was given
AppendedWhileWatched(meeting_name) ==
    /\ StoreUser \in DOMAIN connection_users
    /\ connection_users[StoreUser] = GetUserIdForRoom(meeting_name)
    /\ meeting_name \in DOMAIN watched_files
    /\ StoreUser \in watched_files[meeting_name]
    /\ SafeName(meeting_name) \in fs_events
    /\ Len(FileData(meeting_name).transcripts)
           > Len(DictGet(last_known_state, meeting_name, NewData).transcripts)

\* the change was handled and its delivery ended with a transcript_new sent
\* to the connection
DeltaDelivered(meeting_name) ==
    /\ SafeName(meeting_name) \notin fs_events
    /\ tasks = <<>>
    /\ last_send.type = "transcript_new"
    /\ last_send.conn = StoreUser
    /\ last_send.ok
    /\ last_send.meeting_name = SafeName(meeting_name)

\* C38: Watched changes are eventually delivered: if a registered connection
\* of the room owner watches a meeting and a writer appends entries to the
\* file of the meeting, the connection is eventually sent a transcript_new
\* delta, for every meeting name, including names that the sanitising
\* rewrites when it forms the file stem.
C38_WatchedChangesDelivered ==
    \A meeting_name \in DeliveryRooms :
        AppendedWhileWatched(meeting_name) ~> DeltaDelivered(meeting_name)


\* the entries before the last one of a sequence are kept by another
KeepsAllButLast(old, new) ==
    \A i \in 1..(Len(old) - 1) : i <= Len(new) /\ new[i] = old[i]

\* C39: Merge touches only the tail: every call of the incremental update
\* leaves the entry sequence unchanged, replaces only the last entry, or
\* appends exactly one entry; the entries before the last one are unchanged,
\* the length never decreases, and a final entry is never turned into a
\* non-final one.
C39_MergeTouchesOnlyTail ==
    [][/\ Len(Stored') \in {Len(Stored), Len(Stored) + 1}
       /\ KeepsAllButLast(Stored, Stored')
       /\ Len(Stored') = Len(Stored) + 1 =>
              SubSeq(Stored', 1, Len(Stored)) = Stored
       /\ \A i \in DOMAIN Stored :
              Stored[i].is_final => Stored'[i].is_final]_vars

\* an interim entry that follows a final one was made final in place
C39_Witness ==
    /\ last_call.op = "merge"
    /\ last_call.outcome = "promote"
    /\ Len(Stored) = 3
    /\ Stored[2].is_final
    /\ Stored[3].is_final

=============================================================================
